---- MODULE Spec2Model ----
(***************************************************************************)
(* Cache simulation engine of CacheLab-Pro (src/src/lib/cacheSimulator.ts) *)
(* as a state machine: a CacheSimulator is a record, its methods are       *)
(* operators on that record, and the actions apply them to inputs drawn    *)
(* from small sets.                                                        *)
(***************************************************************************)
EXTENDS Integers, Naturals, Sequences, FiniteSets, TLC

VARIABLES
    sim,          \* the CacheSimulator object (NoEngine before construction)
    result,       \* the AccessResult of the last access(), NoResult otherwise
    op,           \* the last call made on sim (reset: with the access count it discarded)
    fresh,        \* a CacheSimulator constructed anew at the last reset(), fed the same calls
    freshResult,  \* the AccessResult fresh returned for the last access()
    trace,        \* the calls since construction or reset(), while they follow a scenario
    accessCalls,  \* number of access() calls since construction/reset()
    dirtyEvicted, \* number of misses since construction/reset() that replaced a valid dirty block
    candidate,    \* the CacheConfig handed to the constructor
    snapshot      \* the last value getStats() returned, NoStats before

VARIABLES
    hier,         \* the MultiLevelCacheSimulator object (NoEngine when there is none)
    hresult,      \* the HierarchyAccessResult of its last access(), NoResult otherwise
    hop,          \* the last call made on hier (reset: with the access count it discarded)
    hfresh,       \* a MultiLevelCacheSimulator constructed anew at the last reset(), fed the same calls
    hfreshResult, \* the HierarchyAccessResult hfresh returned for the last access()
    hcalls        \* number of access() calls on hier since construction/reset()

VARIABLES
    sweepIn,      \* the arguments of a parameter sweep
    sweepOut      \* the list the sweep returned, NoSweep before it ran

VARIABLES
    configs,      \* the comparison panel's list of ComparisonConfigs
    props         \* the trace and the memoryConfig the panel was handed

VARIABLES
    memory,       \* a MainMemory object on its own (NoEngine when there is none)
    mresult,      \* the MemoryAccessResult of its last access(), NoResult otherwise
    mop,          \* the last call made on memory, with the memory before it
    mcalls        \* number of access() calls made on memory by the actions

VARIABLES
    gen,          \* the last call of a trace generator, with the trace it returned
    ran           \* the CacheSimulator that replayed gen's trace, NoEngine before

VARIABLES
    store,        \* the state of the simulator store (useSimulatorStore)
    ui            \* the PlaybackControls component: what it rendered, its interval, its timers, the saves

cacheVars == <<sim, result, op, fresh, freshResult, trace, accessCalls, dirtyEvicted,
               candidate, snapshot>>
hierVars == <<hier, hresult, hop, hfresh, hfreshResult, hcalls>>
sweepVars == <<sweepIn, sweepOut>>
compareVars == <<configs, props>>
memoryVars == <<memory, mresult, mop, mcalls>>
traceVars == <<gen, ran>>
appVars == <<store, ui>>

vars == <<cacheVars, hierVars, sweepVars, compareVars, memoryVars, traceVars, appVars>>

\* what the actions on one group of variables leave alone
otherThanCache == <<hierVars, sweepVars, compareVars, memoryVars, traceVars, appVars>>
otherThanHier == <<cacheVars, sweepVars, compareVars, memoryVars, traceVars, appVars>>
otherThanSweep == <<cacheVars, hierVars, compareVars, memoryVars, traceVars, appVars>>
otherThanCompare == <<cacheVars, hierVars, sweepVars, memoryVars, traceVars, appVars>>
otherThanMemory == <<cacheVars, hierVars, sweepVars, compareVars, traceVars, appVars>>
otherThanTrace == <<cacheVars, hierVars, sweepVars, compareVars, memoryVars, appVars>>
otherThanApp == <<cacheVars, hierVars, sweepVars, compareVars, memoryVars, traceVars>>

-----------------------------------------------------------------------------
(* Bounds and inputs *)

\* every trace of at most MaxAccesses calls is explored after construction and
\* after each reset(); the scenario traces are explored in full
MaxAccesses == 3

\* Math's Infinity: larger than any counter of the model
Infinity == 2147483647

\* addresses of the traces: 0x00, 0x04 (same block as 0x00), 0x10 (another set),
\* 0x40 and 0x80 (the set of 0x00, other tags)
Addresses == {0, 4, 16, 64, 128}

Policies == {"LRU", "FIFO", "LFU", "RANDOM"}
DeterministicPolicies == {"LRU", "FIFO", "LFU"}
WritePolicies == {"write-back", "write-through"}

CacheConfig(cacheSize, blockSize, associativity, policy, writePolicy) ==
    [cacheSize |-> cacheSize, blockSize |-> blockSize, associativity |-> associativity,
     replacementPolicy |-> policy, writePolicy |-> writePolicy]

\* 128 B, 2-way, 16 B blocks (four sets) under every policy and write policy;
\* 32 B direct mapped (two sets) under both write policies; 32 B fully
\* associative (one set of two ways) under every policy
Configs ==
    {CacheConfig(128, 16, 2, p, w) : p \in Policies, w \in WritePolicies}
    \cup {CacheConfig(32, 16, 1, "LRU", w) : w \in WritePolicies}
    \cup {CacheConfig(32, 16, 2, p, "write-back") : p \in Policies}

NoEngine == [config |-> "none"]
NoResult == [hit |-> "none"]
NoStats == [hits |-> "none"]
NoConfig == [cacheSize |-> "none"]
NoSweep == [kind |-> "none"]

\* the variables of a group while a specification does not use them
IdleTrace ==
    /\ gen = [kind |-> "none"]
    /\ ran = NoEngine

IdleApp ==
    /\ store = [trace |-> "none"]
    /\ ui = [mounted |-> "none"]

IdleCache ==
    /\ candidate = NoConfig
    /\ sim = NoEngine
    /\ fresh = NoEngine
    /\ result = NoResult
    /\ freshResult = NoResult
    /\ op = [kind |-> "none"]
    /\ trace = [on |-> FALSE, calls |-> << >>]
    /\ accessCalls = 0
    /\ dirtyEvicted = 0
    /\ snapshot = NoStats

IdleHier ==
    /\ hier = NoEngine
    /\ hfresh = NoEngine
    /\ hresult = NoResult
    /\ hfreshResult = NoResult
    /\ hop = [kind |-> "none"]
    /\ hcalls = 0

IdleSweep ==
    /\ sweepIn = NoSweep
    /\ sweepOut = NoSweep

IdleCompare ==
    /\ configs = << >>
    /\ props = NoSweep

IdleMemory ==
    /\ memory = NoEngine
    /\ mresult = NoResult
    /\ mop = [kind |-> "none"]
    /\ mcalls = 0

-----------------------------------------------------------------------------
(* Numbers *)

RECURSIVE GCD(_, _)
GCD(a, b) == IF b = 0 THEN a ELSE GCD(b, a % b)

\* the value of the JavaScript division a / b of two non-negative integers:
\* NaN for 0 / 0, otherwise the quotient as a fraction in lowest terms
NaN == [num |-> 0, den |-> 0]
Div(a, b) ==
    IF b = 0 THEN NaN
    ELSE LET g == GCD(a, b) IN [num |-> a \div g, den |-> b \div g]

\* the literal 0 stored in hitRate
Zero == [num |-> 0, den |-> 1]

\* arithmetic on non-negative numbers held as fractions in lowest terms
Whole(n) == [num |-> n, den |-> 1]

RatAdd(x, y) == Div(x.num * y.den + y.num * x.den, x.den * y.den)

\* x - y for x >= y
RatSub(x, y) == Div(x.num * y.den - y.num * x.den, x.den * y.den)

\* the common factors are taken out before the products are formed
RatMul(x, y) ==
    IF x.num = 0 \/ y.num = 0 THEN Zero
    ELSE LET g1 == GCD(x.num, y.den)
             g2 == GCD(y.num, x.den)
         IN  [num |-> (x.num \div g1) * (y.num \div g2),
              den |-> (x.den \div g2) * (y.den \div g1)]

\* x / y for y # 0
RatDiv(x, y) == RatMul(x, [num |-> y.den, den |-> y.num])

\* x < y, by the integer parts and then the reciprocals of the fractional parts
RECURSIVE RatLess(_, _)
RatLess(x, y) ==
    LET qx == x.num \div x.den
        qy == y.num \div y.den
        rx == x.num % x.den
        ry == y.num % y.den
    IN  IF qx # qy THEN qx < qy
        ELSE IF ry = 0 THEN FALSE
        ELSE IF rx = 0 THEN TRUE
        ELSE RatLess([num |-> y.den, den |-> ry], [num |-> x.den, den |-> rx])

\* Math.log2 of the fraction n / d (n, d at most 2^10 apart from a factor below
\* 2^20): the exponent when n / d is a power of two (negative for 1/2, 1/4,
\* ...), and Fractional when the logarithm is not an integer
Fractional == "fractional"
Log2(n, d) ==
    IF \E k \in 0..20 : n = d * 2 ^ k
    THEN CHOOSE k \in 0..20 : n = d * 2 ^ k
    ELSE IF \E k \in 1..20 : d = n * 2 ^ k
    THEN 0 - (CHOOSE k \in 1..20 : d = n * 2 ^ k)
    ELSE Fractional

\* a number 2^31 <= x < 2^32 is held as x - 2^32, the 32-bit pattern ToUint32
\* and ToInt32 share: Uint32(1, low) is 2^31 + low
Uint32(top, low) == IF top = 0 THEN low ELSE (low - 2147483647) - 1

\* x >> n, the shift that repeats the sign bit
ShiftRightUnsigned_SignPropagating(x, n) == x \div (2 ^ n)

\* x >>> n for 0 <= x < 2^32 and 0 <= n <= 30: zeros come in from the left
ShiftRightUnsigned(x, n) ==
    IF x >= 0 THEN x \div (2 ^ n)
    ELSE IF n = 0 THEN x
    ELSE ((x + 2147483647) + 1) \div (2 ^ n) + 2 ^ (31 - n)

\* x & y for non-negative x, y
RECURSIVE BitAnd(_, _)
BitAnd(x, y) ==
    IF x = 0 \/ y = 0 THEN 0
    ELSE (x % 2) * (y % 2) + 2 * BitAnd(x \div 2, y \div 2)

-----------------------------------------------------------------------------
(* CacheSimulator *)

FreshBlock ==
    [valid |-> FALSE, dirty |-> FALSE, tag |-> 0,
     lastAccessTime |-> 0, insertionTime |-> 0, accessCount |-> 0]

ZeroStats ==
    [hits |-> 0, misses |-> 0, hitRate |-> Zero, totalAccesses |-> 0, writebacks |-> 0]

\* the number of iterations of for (i = 0; i < cacheSize/blockSize/associativity; i++)
SetCount(config) ==
    LET d == config.blockSize * config.associativity
    IN  (config.cacheSize + d - 1) \div d

\* constructor: no configuration is refused
CacheSimulator_new(config) ==
    [config |-> config,
     accessTime |-> 0,
     offsetBits |-> Log2(config.blockSize, 1),
     indexBits |-> Log2(config.cacheSize, config.blockSize * config.associativity),
     stats |-> ZeroStats,
     sets |-> [i \in 0..(SetCount(config) - 1) |->
                  [j \in 0..(config.associativity - 1) |-> FreshBlock]]]

extractTag(c, address) == ShiftRightUnsigned(address, c.offsetBits + c.indexBits)

extractIndex(c, address) ==
    LET mask == (2 ^ c.indexBits) - 1
    IN  BitAnd(ShiftRightUnsigned(address, c.offsetBits), mask)

\* hitScan with a lookup that stops after way 0
hitScan_FirstWayOnly(blocks, tag, i) ==
    IF blocks[0].valid /\ blocks[0].tag = tag THEN 0 ELSE -1

\* for (i = 0; i < blocks.length; i++) if (block.valid && block.tag === tag): the
\* first way that hits, -1 when the loop ends without a hit
RECURSIVE hitScan(_, _, _)
hitScan(blocks, tag, i) ==
    IF i >= Cardinality(DOMAIN blocks) THEN -1
    ELSE IF blocks[i].valid /\ blocks[i].tag = tag THEN i
    ELSE hitScan(blocks, tag, i + 1)

\* invalidScan returning the last invalid way
invalidScan_LastFree(blocks, i) ==
    IF \A j \in DOMAIN blocks : blocks[j].valid THEN -1
    ELSE CHOOSE j \in DOMAIN blocks :
            ~blocks[j].valid /\ \A k \in DOMAIN blocks : ~blocks[k].valid => k <= j

\* for (i = 0; i < blocks.length; i++) if (!blocks[i].valid) return i: the first
\* invalid way, -1 when every way is valid
RECURSIVE invalidScan(_, _)
invalidScan(blocks, i) ==
    IF i >= Cardinality(DOMAIN blocks) THEN -1
    ELSE IF ~blocks[i].valid THEN i
    ELSE invalidScan(blocks, i + 1)

\* lruScan comparing insertionTime where it should compare lastAccessTime
RECURSIVE lruScan_ByInsertion(_, _, _, _)
lruScan_ByInsertion(blocks, i, minTime, victimIndex) ==
    IF i >= Cardinality(DOMAIN blocks) THEN victimIndex
    ELSE IF blocks[i].insertionTime < minTime
         THEN lruScan_ByInsertion(blocks, i + 1, blocks[i].insertionTime, i)
         ELSE lruScan_ByInsertion(blocks, i + 1, minTime, victimIndex)

\* lruScan that never moves off the way it started with
lruScan_FirstWay(blocks, i, minTime, victimIndex) == victimIndex

\* case 'LRU': the loop keeping the first strictly smallest lastAccessTime
RECURSIVE lruScan(_, _, _, _)
lruScan(blocks, i, minTime, victimIndex) ==
    IF i >= Cardinality(DOMAIN blocks) THEN victimIndex
    ELSE IF blocks[i].lastAccessTime < minTime
         THEN lruScan(blocks, i + 1, blocks[i].lastAccessTime, i)
         ELSE lruScan(blocks, i + 1, minTime, victimIndex)

\* lfuScan without the accessCount comparison
RECURSIVE lfuScan_IgnoresCount(_, _, _, _, _)
lfuScan_IgnoresCount(blocks, i, minCount, minTime, victimIndex) ==
    IF i >= Cardinality(DOMAIN blocks) THEN victimIndex
    ELSE IF blocks[i].lastAccessTime < minTime
         THEN lfuScan_IgnoresCount(blocks, i + 1, minCount, blocks[i].lastAccessTime, i)
         ELSE lfuScan_IgnoresCount(blocks, i + 1, minCount, minTime, victimIndex)

\* case 'LFU': smallest accessCount, then smallest lastAccessTime
RECURSIVE lfuScan(_, _, _, _, _)
lfuScan(blocks, i, minCount, minTime, victimIndex) ==
    IF i >= Cardinality(DOMAIN blocks) THEN victimIndex
    ELSE IF \/ blocks[i].accessCount < minCount
            \/ (blocks[i].accessCount = minCount /\ blocks[i].lastAccessTime < minTime)
         THEN lfuScan(blocks, i + 1, blocks[i].accessCount, blocks[i].lastAccessTime, i)
         ELSE lfuScan(blocks, i + 1, minCount, minTime, victimIndex)

\* fifoScan comparing lastAccessTime where it should compare insertionTime
RECURSIVE fifoScan_ByLastAccess(_, _, _, _)
fifoScan_ByLastAccess(blocks, i, minInsertTime, victimIndex) ==
    IF i >= Cardinality(DOMAIN blocks) THEN victimIndex
    ELSE IF blocks[i].lastAccessTime < minInsertTime
         THEN fifoScan_ByLastAccess(blocks, i + 1, blocks[i].lastAccessTime, i)
         ELSE fifoScan_ByLastAccess(blocks, i + 1, minInsertTime, victimIndex)

\* case 'FIFO' and default: the loop keeping the first strictly smallest insertionTime
RECURSIVE fifoScan(_, _, _, _)
fifoScan(blocks, i, minInsertTime, victimIndex) ==
    IF i >= Cardinality(DOMAIN blocks) THEN victimIndex
    ELSE IF blocks[i].insertionTime < minInsertTime
         THEN fifoScan(blocks, i + 1, blocks[i].insertionTime, i)
         ELSE fifoScan(blocks, i + 1, minInsertTime, victimIndex)

\* policyVictim taking the drawn way under every policy
policyVictim_AlwaysDrawn(c, blocks, random) == random

\* the switch of findVictim on a set whose ways are all valid; random is the
\* value of Math.floor(Math.random() * blocks.length)
policyVictim(c, blocks, random) ==
    CASE c.config.replacementPolicy = "LRU" -> lruScan(blocks, 0, Infinity, 0)
      [] c.config.replacementPolicy = "LFU" -> lfuScan(blocks, 0, Infinity, Infinity, 0)
      [] c.config.replacementPolicy = "RANDOM" -> random
      [] OTHER -> fifoScan(blocks, 0, Infinity, 0)

findVictim(c, blocks, random) ==
    LET free == invalidScan(blocks, 0)
    IN  IF free >= 0
        THEN [wayIndex |-> free, hadEviction |-> FALSE]
        ELSE LET victimIndex == policyVictim(c, blocks, random)
             IN  [wayIndex |-> victimIndex,
                  evictedTag |-> blocks[victimIndex].tag,
                  hadEviction |-> TRUE]

\* hitBlock stamping the hit with the counter before it was advanced
hitBlock_StaleClock(c, block, isWrite, now) ==
    [block EXCEPT !.lastAccessTime = now - 1,
                  !.accessCount = @ + 1,
                  !.dirty = IF isWrite /\ c.config.writePolicy = "write-back" THEN TRUE ELSE @]

\* hitBlock setting dirty as the install does: a read hit cleans the block
hitBlock_DirtyAsInstalled(c, block, isWrite, now) ==
    [block EXCEPT !.lastAccessTime = now,
                  !.accessCount = @ + 1,
                  !.dirty = isWrite /\ c.config.writePolicy = "write-back"]

\* hitBlock marking the block dirty on every write, whatever the write policy
hitBlock_DirtyOnAnyWrite(c, block, isWrite, now) ==
    [block EXCEPT !.lastAccessTime = now,
                  !.accessCount = @ + 1,
                  !.dirty = IF isWrite THEN TRUE ELSE @]

\* the block a hit leaves in the hit way
hitBlock(c, block, isWrite, now) ==
    [block EXCEPT !.lastAccessTime = now,
                  !.accessCount = @ + 1,
                  !.dirty = IF isWrite /\ c.config.writePolicy = "write-back" THEN TRUE ELSE @]

\* installedBlock stamped with the counter before it was advanced, count 0
installedBlock_BeforeAdvance(c, tag, isWrite, now) ==
    [valid |-> TRUE,
     dirty |-> isWrite /\ c.config.writePolicy = "write-back",
     tag |-> tag,
     lastAccessTime |-> now - 1,
     insertionTime |-> now - 1,
     accessCount |-> 0]

\* installedBlock without block.valid = true
installedBlock_NotValid(c, tag, isWrite, now) ==
    [valid |-> FALSE,
     dirty |-> isWrite /\ c.config.writePolicy = "write-back",
     tag |-> tag,
     lastAccessTime |-> now,
     insertionTime |-> now,
     accessCount |-> 1]

\* the block a miss installs
installedBlock(c, tag, isWrite, now) ==
    [valid |-> TRUE,
     dirty |-> isWrite /\ c.config.writePolicy = "write-back",
     tag |-> tag,
     lastAccessTime |-> now,
     insertionTime |-> now,
     accessCount |-> 1]

\* countsWriteback without the dirty test
countsWriteback_AnyEviction(victim, block) == victim.hadEviction

\* whether the miss path counts a writeback for the way it replaces
countsWriteback(victim, block) == victim.hadEviction /\ block.dirty

\* stats after a hit
hitStats(stats) ==
    LET total == stats.totalAccesses + 1
    IN  [stats EXCEPT !.totalAccesses = total,
                      !.hits = @ + 1,
                      !.hitRate = Div(stats.hits + 1, total)]

\* missStats without the hitRate update of the miss path
missStats_StaleHitRate(stats, writeback) ==
    [stats EXCEPT !.totalAccesses = @ + 1,
                  !.misses = @ + 1,
                  !.writebacks = IF writeback THEN @ + 1 ELSE @]

\* stats after a miss
missStats(stats, writeback) ==
    LET total == stats.totalAccesses + 1
    IN  [stats EXCEPT !.totalAccesses = total,
                      !.misses = @ + 1,
                      !.hitRate = Div(stats.hits, total),
                      !.writebacks = IF writeback THEN @ + 1 ELSE @]

\* access(address, isWrite): the engine afterwards and the AccessResult
CacheSimulator_access(c, address, isWrite, random) ==
    LET now == c.accessTime + 1
        tag == extractTag(c, address)
        setIndex == extractIndex(c, address)
        blocks == c.sets[setIndex]
        way == hitScan(blocks, tag, 0)
    IN  IF way >= 0
        THEN [sim |-> [c EXCEPT !.accessTime = now,
                                !.stats = hitStats(c.stats),
                                !.sets[setIndex][way] = hitBlock(c, blocks[way], isWrite, now)],
              result |-> [hit |-> TRUE, setIndex |-> setIndex, wayIndex |-> way,
                          tag |-> tag, evicted |-> FALSE]]
        ELSE LET victim == findVictim(c, blocks, random)
                 wayIndex == victim.wayIndex
                 writeback == countsWriteback(victim, blocks[wayIndex])
             IN  [sim |-> [c EXCEPT !.accessTime = now,
                                    !.stats = missStats(c.stats, writeback),
                                    !.sets[setIndex][wayIndex] =
                                        installedBlock(c, tag, isWrite, now)],
                  result |-> IF victim.hadEviction
                             THEN [hit |-> FALSE, setIndex |-> setIndex,
                                   wayIndex |-> wayIndex, tag |-> tag, evicted |-> TRUE,
                                   evictedTag |-> victim.evictedTag]
                             ELSE [hit |-> FALSE, setIndex |-> setIndex,
                                   wayIndex |-> wayIndex, tag |-> tag, evicted |-> FALSE]]

\* reset() without this.accessTime = 0
CacheSimulator_reset_KeepsClock(c) ==
    [c EXCEPT !.stats = ZeroStats,
              !.sets = [i \in DOMAIN c.sets |->
                          [j \in DOMAIN c.sets[i] |-> FreshBlock]]]

\* reset(): counter and stats zeroed, every block rewritten field by field
CacheSimulator_reset(c) ==
    [c EXCEPT !.accessTime = 0,
              !.stats = ZeroStats,
              !.sets = [i \in DOMAIN c.sets |->
                          [j \in DOMAIN c.sets[i] |->
                              [c.sets[i][j] EXCEPT !.valid = FALSE, !.dirty = FALSE,
                                                   !.tag = 0, !.lastAccessTime = 0,
                                                   !.insertionTime = 0,
                                                   !.accessCount = 0]]]]

getStats(c) == c.stats

\* calculateAMAT(hitTime, missPenalty) of one cache
CacheSimulator_calculateAMAT(c, hitTime, missPenalty) ==
    LET missRate == RatSub(Whole(1), c.stats.hitRate)
    IN  RatAdd(Whole(hitTime), RatMul(missRate, Whole(missPenalty)))

\* the default arguments of CacheSimulator.calculateAMAT
DefaultHitTime == 1
DefaultMissPenalty == 100

-----------------------------------------------------------------------------
(* MainMemory *)

MemoryConfig(sizeMB, latencyCycles, busWidthBits, frequencyMHz, memoryType, burstLength) ==
    [sizeMB |-> sizeMB, latencyCycles |-> latencyCycles, busWidthBits |-> busWidthBits,
     frequencyMHz |-> frequencyMHz, memoryType |-> memoryType, burstLength |-> burstLength]

\* this.regionCount
RegionCount == 16

\* the capacity of accessHistory
HistoryLimit == 1000

Min(a, b) == IF a < b THEN a ELSE b
Max(a, b) == IF a > b THEN a ELSE b

\* Math.floor(a / b) where the code takes Math.ceil
CeilDiv_RoundedDown(a, b) == a \div b

\* Math.ceil(a / b) for a >= 0, b > 0
CeilDiv(a, b) == (a + b - 1) \div b

\* pushHistory dropping the entry just pushed when the buffer is full
pushHistory_DropsNewest(accessHistory, res) ==
    IF Len(accessHistory) >= HistoryLimit THEN accessHistory ELSE Append(accessHistory, res)

\* accessHistory.push(result); if (accessHistory.length > 1000) accessHistory.shift()
pushHistory(accessHistory, res) ==
    IF Len(accessHistory) + 1 > HistoryLimit
    THEN Tail(Append(accessHistory, res))
    ELSE Append(accessHistory, res)

ZeroRegion ==
    [startAddress |-> 0, endAddress |-> 0, accessCount |-> 0,
     readCount |-> 0, writeCount |-> 0, lastAccessTime |-> 0]

\* memoryType.startsWith('DDR')
IsDDR(memoryType) == memoryType \in {"DDR3", "DDR4", "DDR5"}

calculatePeakBandwidth(config) ==
    LET multiplier == IF IsDDR(config.memoryType) THEN 2 ELSE 1
    IN  Div(config.busWidthBits * config.frequencyMHz * multiplier, 8 * 1000)

ZeroMemoryStats(config) ==
    [totalReads |-> 0, totalWrites |-> 0, totalAccesses |-> 0, bytesTransferred |-> 0,
     averageLatency |-> Zero, bandwidthUtilization |-> Zero,
     peakBandwidthMBps |-> calculatePeakBandwidth(config),
     effectiveBandwidthMBps |-> Zero]

MainMemory_new(config) ==
    [config |-> config,
     totalCycles |-> 0,
     minAddressSeen |-> Infinity,
     maxAddressSeen |-> 0,
     dynamicRegionSize |-> 0,
     stats |-> ZeroMemoryStats(config),
     regions |-> [i \in 0..(RegionCount - 1) |-> ZeroRegion],
     accessHistory |-> << >>]

\* access(address, isWrite, blockSize) for a bus width that is a multiple of 8
\* bits: the memory afterwards and the MemoryAccessResult
MainMemory_access(m, address, isWrite, blockSize) ==
    LET totalCycles == m.totalCycles + 1
        memorySize == m.config.sizeMB * 1024 * 1024
        wrappedAddress == address % memorySize
        minAddressSeen == Min(m.minAddressSeen, wrappedAddress)
        maxAddressSeen == Max(m.maxAddressSeen, wrappedAddress)
        addressRange == maxAddressSeen - minAddressSeen + 1
        dynamicRegionSize == Max(1, CeilDiv(addressRange, RegionCount))
        regionIndex ==
            Min((wrappedAddress - minAddressSeen) \div dynamicRegionSize, RegionCount - 1)
        touched == Max(0, regionIndex)
        busBytes == m.config.busWidthBits \div 8
        bytesPerBurst == busBytes * m.config.burstLength
        transferSize == Max(blockSize, bytesPerBurst)
        burstCycles == CeilDiv(transferSize, busBytes)
        totalLatency == m.config.latencyCycles + burstCycles
        totalAccesses == m.stats.totalAccesses + 1
        bytesTransferred == m.stats.bytesTransferred + transferSize
        averageLatency ==
            RatDiv(RatAdd(RatMul(m.stats.averageLatency, Whole(totalAccesses - 1)),
                          Whole(totalLatency)),
                   Whole(totalAccesses))
        effective == RatMul(Div(bytesTransferred, totalCycles), Whole(m.config.frequencyMHz))
        res == [address |-> wrappedAddress, isWrite |-> isWrite,
                latencyCycles |-> totalLatency, bytesTransferred |-> transferSize,
                regionIndex |-> touched]
    IN  [memory |->
            [m EXCEPT
                !.totalCycles = totalCycles,
                !.minAddressSeen = minAddressSeen,
                !.maxAddressSeen = maxAddressSeen,
                !.dynamicRegionSize = dynamicRegionSize,
                !.regions =
                    [i \in DOMAIN m.regions |->
                        LET moved ==
                                [m.regions[i] EXCEPT
                                    !.startAddress = minAddressSeen + i * dynamicRegionSize,
                                    !.endAddress =
                                        minAddressSeen + (i + 1) * dynamicRegionSize - 1]
                        IN  IF i # touched THEN moved
                            ELSE [moved EXCEPT
                                    !.accessCount = @ + 1,
                                    !.lastAccessTime = totalCycles,
                                    !.writeCount = IF isWrite THEN @ + 1 ELSE @,
                                    !.readCount = IF isWrite THEN @ ELSE @ + 1]],
                !.stats =
                    [totalReads |-> m.stats.totalReads + (IF isWrite THEN 0 ELSE 1),
                     totalWrites |-> m.stats.totalWrites + (IF isWrite THEN 1 ELSE 0),
                     totalAccesses |-> totalAccesses,
                     bytesTransferred |-> bytesTransferred,
                     averageLatency |-> averageLatency,
                     bandwidthUtilization |->
                        RatMul(RatDiv(effective, m.stats.peakBandwidthMBps), Whole(100)),
                     peakBandwidthMBps |-> m.stats.peakBandwidthMBps,
                     effectiveBandwidthMBps |-> effective],
                !.accessHistory = pushHistory(m.accessHistory, res)],
         result |-> res]

MainMemory_reset_KeepsBoundaries(m) ==
    [m EXCEPT
        !.totalCycles = 0,
        !.minAddressSeen = Infinity,
        !.maxAddressSeen = 0,
        !.dynamicRegionSize = 0,
        !.stats = ZeroMemoryStats(m.config),
        !.regions = [i \in DOMAIN m.regions |->
                        [m.regions[i] EXCEPT !.accessCount = 0, !.readCount = 0,
                                             !.writeCount = 0, !.lastAccessTime = 0]],
        !.accessHistory = << >>]

MainMemory_reset(m) ==
    [m EXCEPT
        !.totalCycles = 0,
        !.minAddressSeen = Infinity,
        !.maxAddressSeen = 0,
        !.dynamicRegionSize = 0,
        !.stats = ZeroMemoryStats(m.config),
        !.regions = [i \in DOMAIN m.regions |->
                        [m.regions[i] EXCEPT !.startAddress = 0, !.endAddress = 0,
                                             !.accessCount = 0, !.readCount = 0,
                                             !.writeCount = 0, !.lastAccessTime = 0]],
        !.accessHistory = << >>]

-----------------------------------------------------------------------------
(* MultiLevelCacheSimulator *)

Null == [null |-> TRUE]
Undefined == [undefined |-> TRUE]

MultiLevelCacheConfig(l1, l2, enabledL1, enabledL2) ==
    [l1 |-> l1, l2 |-> l2, enabled |-> [l1 |-> enabledL1, l2 |-> enabledL2]]

\* the memoryConfig the constructor takes when it is given none
DefaultMemoryConfig == MemoryConfig(256, 100, 64, 3200, "DDR4", 8)

\* l1HitTime and l2HitTime of access()
L1HitTime == 1
L2HitTime == 10

\* the blockSize handed to memory when no level is enabled
DefaultBlockSize == 64

\* new MultiLevelCacheSimulator(config, memoryConfig?)
MultiLevelCacheSimulator_new(config, memoryConfig) ==
    LET actual == IF memoryConfig = Undefined THEN DefaultMemoryConfig ELSE memoryConfig
    IN
    [config |-> config,
     memoryConfig |-> actual,
     memory |-> MainMemory_new(actual),
     memoryAccesses |-> 0,
     l1 |-> IF config.enabled.l1 THEN CacheSimulator_new(config.l1) ELSE Null,
     l2 |-> IF config.enabled.l2 THEN CacheSimulator_new(config.l2) ELSE Null,
     combinedStats |-> ZeroStats]

\* an AccessResult with result.level set and, once memory was reached,
\* result.memoryAccessed = true
Levelled(r, level, memoryAccessed) ==
    IF r = Undefined THEN Undefined
    ELSE IF r.evicted
    THEN IF memoryAccessed
         THEN [hit |-> r.hit, setIndex |-> r.setIndex, wayIndex |-> r.wayIndex,
               tag |-> r.tag, evicted |-> TRUE, evictedTag |-> r.evictedTag,
               level |-> level, memoryAccessed |-> TRUE]
         ELSE [hit |-> r.hit, setIndex |-> r.setIndex, wayIndex |-> r.wayIndex,
               tag |-> r.tag, evicted |-> TRUE, evictedTag |-> r.evictedTag,
               level |-> level]
    ELSE IF memoryAccessed
         THEN [hit |-> r.hit, setIndex |-> r.setIndex, wayIndex |-> r.wayIndex,
               tag |-> r.tag, evicted |-> FALSE, level |-> level, memoryAccessed |-> TRUE]
         ELSE [hit |-> r.hit, setIndex |-> r.setIndex, wayIndex |-> r.wayIndex,
               tag |-> r.tag, evicted |-> FALSE, level |-> level]

\* combinedHit recording the hit of a level as a combined miss
combinedHit_CountedAsMiss(stats) ==
    [stats EXCEPT !.totalAccesses = @ + 1,
                  !.misses = @ + 1,
                  !.hitRate = Div(stats.hits, stats.totalAccesses + 1)]

\* combinedStats after a hit in some level
combinedHit(stats) ==
    [stats EXCEPT !.totalAccesses = @ + 1,
                  !.hits = @ + 1,
                  !.hitRate = Div(stats.hits + 1, stats.totalAccesses + 1)]

\* combinedStats after a miss in every level
combinedMiss_Uncounted(stats) == [stats EXCEPT !.totalAccesses = @ + 1]

combinedMiss(stats) ==
    [stats EXCEPT !.totalAccesses = @ + 1,
                  !.misses = @ + 1,
                  !.hitRate = Div(stats.hits, stats.totalAccesses + 1)]

\* `if (this.l1) { ... if (l1Result.hit)` and the same test of L2
levelHit_Never(level, a) == FALSE

levelHit_Always(level, a) == level # Null

\* levelHit going on to the next level on the first hit of a level
levelHit_AfterFirstHit(level, a) == level # Null /\ a.result.hit /\ a.sim.stats.hits > 1

levelHit(level, a) == level # Null /\ a.result.hit

\* totalLatency += cycles
addLatency_Dropped(totalLatency, cycles) == totalLatency

addLatency(totalLatency, cycles) == totalLatency + cycles

\* the blockSize of the memory transfer
transferBlockSize_Default(h) == DefaultBlockSize

transferBlockSize(h) ==
    IF h.l1 # Null THEN h.l1.config.blockSize
    ELSE IF h.l2 # Null THEN h.l2.config.blockSize
    ELSE DefaultBlockSize

\* access(address, isWrite): the hierarchy afterwards and the
\* HierarchyAccessResult; random1 and random2 are the draws of the two levels
MultiLevelCacheSimulator_access(h, address, isWrite, random1, random2) ==
    LET a1 == CacheSimulator_access(h.l1, address, isWrite, random1)
        l1Hit == levelHit(h.l1, a1)
        l1After == IF h.l1 # Null THEN a1.sim ELSE Null
        l1Result == IF h.l1 # Null THEN a1.result ELSE Undefined
        afterL1 == IF h.l1 # Null THEN addLatency(0, L1HitTime) ELSE 0
        pathL1 == IF h.l1 # Null THEN <<"L1">> ELSE << >>
    IN  IF l1Hit
        THEN [sim |-> [h EXCEPT !.l1 = l1After,
                                !.combinedStats = combinedHit(h.combinedStats)],
              result |-> [l1Result |-> Levelled(l1Result, "L1", FALSE),
                          l2Result |-> Undefined,
                          memoryResult |-> Undefined,
                          totalLatency |-> afterL1,
                          dataPath |-> pathL1]]
        ELSE
        LET a2 == CacheSimulator_access(h.l2, address, isWrite, random2)
            l2Hit == levelHit(h.l2, a2)
            l2After == IF h.l2 # Null THEN a2.sim ELSE Null
            l2Result == IF h.l2 # Null THEN a2.result ELSE Undefined
            afterL2 == IF h.l2 # Null THEN addLatency(afterL1, L2HitTime) ELSE afterL1
            pathL2 == IF h.l2 # Null THEN Append(pathL1, "L2") ELSE pathL1
        IN  IF l2Hit
            THEN [sim |-> [h EXCEPT !.l1 = l1After, !.l2 = l2After,
                                    !.combinedStats = combinedHit(h.combinedStats)],
                  result |-> [l1Result |-> Levelled(l1Result, "L1", FALSE),
                              l2Result |-> Levelled(l2Result, "L2", FALSE),
                              memoryResult |-> Undefined,
                              totalLatency |-> afterL2,
                              dataPath |-> pathL2]]
            ELSE
            LET mem == MainMemory_access(h.memory, address, isWrite, transferBlockSize(h))
            IN  [sim |-> [h EXCEPT !.l1 = l1After, !.l2 = l2After,
                                   !.memory = mem.memory,
                                   !.memoryAccesses = @ + 1,
                                   !.combinedStats = combinedMiss(h.combinedStats)],
                 result |-> [l1Result |-> Levelled(l1Result, "L1", TRUE),
                             l2Result |-> Levelled(l2Result, "L2", TRUE),
                             memoryResult |-> mem.result,
                             totalLatency |-> addLatency(afterL2, mem.result.latencyCycles),
                             dataPath |-> Append(pathL2, "Memory")]]

MultiLevelCacheSimulator_reset(h) ==
    [h EXCEPT !.l1 = IF h.l1 # Null THEN CacheSimulator_reset(h.l1) ELSE Null,
              !.l2 = IF h.l2 # Null THEN CacheSimulator_reset(h.l2) ELSE Null,
              !.memory = MainMemory_reset(h.memory),
              !.memoryAccesses = 0,
              !.combinedStats = ZeroStats]

\* an optional numeric argument
Given(n) == [given |-> TRUE, value |-> n]
NotGiven == [given |-> FALSE]

\* calculateAMAT(l1HitTime, l2HitTime, memoryPenalty?)
MultiLevelCacheSimulator_calculateAMAT_SkipsL2(h, l1HitTime, l2HitTime, memoryPenalty) ==
    LET actualMemoryPenalty ==
            Whole(IF memoryPenalty.given THEN memoryPenalty.value
                  ELSE h.memoryConfig.latencyCycles)
        l1MissRate == IF h.l1 # Null THEN RatSub(Whole(1), h.l1.stats.hitRate) ELSE Whole(1)
    IN  IF ~h.config.enabled.l1 THEN actualMemoryPenalty
        ELSE RatAdd(Whole(l1HitTime), RatMul(l1MissRate, actualMemoryPenalty))

MultiLevelCacheSimulator_calculateAMAT(h, l1HitTime, l2HitTime, memoryPenalty) ==
    LET actualMemoryPenalty ==
            Whole(IF memoryPenalty.given THEN memoryPenalty.value
                  ELSE h.memoryConfig.latencyCycles)
        l1MissRate == IF h.l1 # Null THEN RatSub(Whole(1), h.l1.stats.hitRate) ELSE Whole(1)
        l2MissRate == IF h.l2 # Null THEN RatSub(Whole(1), h.l2.stats.hitRate) ELSE Whole(1)
    IN  IF ~h.config.enabled.l1 /\ ~h.config.enabled.l2 THEN actualMemoryPenalty
        ELSE IF ~h.config.enabled.l2
        THEN RatAdd(Whole(l1HitTime), RatMul(l1MissRate, actualMemoryPenalty))
        ELSE IF ~h.config.enabled.l1
        THEN RatAdd(Whole(l2HitTime), RatMul(l2MissRate, actualMemoryPenalty))
        ELSE RatAdd(Whole(l1HitTime),
                    RatMul(l1MissRate,
                           RatAdd(Whole(l2HitTime), RatMul(l2MissRate, actualMemoryPenalty))))

-----------------------------------------------------------------------------
(* Scenario traces of the specification's test seeds: <<isWrite, address>> *)

LRURetainsHot == << <<FALSE, 0>>, <<FALSE, 64>>, <<FALSE, 0>>, <<FALSE, 128>> >>
LFUProtectsFrequent ==
    << <<FALSE, 0>>, <<FALSE, 0>>, <<FALSE, 0>>, <<FALSE, 0>>, <<FALSE, 0>>,
       <<FALSE, 64>>, <<FALSE, 128>> >>
DirtyEviction == << <<TRUE, 0>>, <<FALSE, 32>> >>

DirectMappedConflict == << <<FALSE, 0>>, <<FALSE, 64>>, <<FALSE, 0>> >>

Scenarios == {LRURetainsHot, LFUProtectsFrequent, DirtyEviction, DirectMappedConflict}

IsPrefix(s, t) == Len(s) <= Len(t) /\ SubSeq(t, 1, Len(s)) = s

NoCalls == [on |-> TRUE, calls |-> << >>]

\* the calls so far extended by one more, dropped once they leave every scenario
Follow(tr, call) ==
    IF tr.on /\ \E s \in Scenarios : IsPrefix(Append(tr.calls, call), s)
    THEN [on |-> TRUE, calls |-> Append(tr.calls, call)]
    ELSE [on |-> FALSE, calls |-> << >>]

\* the calls access(address, isWrite) of the explored traces, <<isWrite, address>>
Calls == {<<w, a>> : w \in BOOLEAN, a \in Addresses}
ScenarioCalls == UNION {{s[i] : i \in 1..Len(s)} : s \in Scenarios}

-----------------------------------------------------------------------------
(* One CacheSimulator under arbitrary access() and reset() calls *)

Init ==
    /\ candidate \in Configs
    /\ sim = CacheSimulator_new(candidate)
    /\ fresh = sim
    /\ result = NoResult
    /\ freshResult = NoResult
    /\ op = [kind |-> "new"]
    /\ trace = NoCalls
    /\ accessCalls = 0
    /\ dirtyEvicted = 0
    /\ snapshot = NoStats
    /\ IdleHier
    /\ IdleSweep
    /\ IdleCompare
    /\ IdleMemory
    /\ IdleTrace
    /\ IdleApp

Access ==
    /\ \E call \in Calls \cup ScenarioCalls, random \in 0..(sim.config.associativity - 1) :
          LET isWrite == call[1]
              address == call[2]
              r == CacheSimulator_access(sim, address, isWrite, random)
              f == CacheSimulator_access(fresh, address, isWrite, random)
              old == sim.sets[r.result.setIndex][r.result.wayIndex]
          IN  /\ \/ accessCalls < MaxAccesses /\ call \in Calls
                 \/ Follow(trace, call).on
              /\ sim' = r.sim
              /\ result' = r.result
              /\ fresh' = f.sim
              /\ freshResult' = f.result
              /\ op' = [kind |-> "access"]
              /\ trace' = Follow(trace, call)
              /\ accessCalls' = accessCalls + 1
              /\ dirtyEvicted' =
                    IF ~r.result.hit /\ old.valid /\ old.dirty
                    THEN dirtyEvicted + 1 ELSE dirtyEvicted
    /\ UNCHANGED <<candidate, snapshot, otherThanCache>>

Reset ==
    /\ sim' = CacheSimulator_reset(sim)
    /\ fresh' = CacheSimulator_new(candidate)
    /\ result' = NoResult
    /\ freshResult' = NoResult
    /\ op' = [kind |-> "reset", discarded |-> sim.accessTime]
    /\ trace' = NoCalls
    /\ accessCalls' = 0
    /\ dirtyEvicted' = 0
    /\ UNCHANGED <<candidate, snapshot, otherThanCache>>

Next == Access \/ Reset

Spec == Init /\ [][Next]_vars

-----------------------------------------------------------------------------
(* Vocabulary of the properties *)

AllCalls == Calls \cup ScenarioCalls
Draws == 0..(sim.config.associativity - 1)
Ways(blocks) == DOMAIN blocks
AllValid(blocks) == \A j \in Ways(blocks) : blocks[j].valid
ValidWaysWithTag(blocks, tag) == {j \in Ways(blocks) : blocks[j].valid /\ blocks[j].tag = tag}
SameBlock(a, b) == a \div sim.config.blockSize = b \div sim.config.blockSize
Prefix(s, n) == SubSeq(s, 1, n)
Followed(s, n) == trace.on /\ trace.calls = Prefix(s, n)
Accessed == op.kind = "access"

-----------------------------------------------------------------------------
(* C1..C9: one CacheSimulator of a valid geometry, specification Spec *)

\* C1: after N calls of access() since construction or the last reset(),
\* hits + misses = totalAccesses = N, and hitRate is hits / totalAccesses
\* (0 when there was no access, never NaN).
C1_Counting ==
    LET st == getStats(sim)
    IN  /\ st.hits + st.misses = st.totalAccesses
        /\ st.totalAccesses = accessCalls
        /\ st.hitRate # NaN
        /\ st.hitRate.den > 0
        /\ st.hitRate.num * st.totalAccesses = st.hits * st.hitRate.den
        /\ (st.totalAccesses = 0 => st.hitRate = Zero)

C1_Witness ==
    /\ accessCalls >= 3
    /\ sim.stats.hits >= 1
    /\ sim.stats.misses >= 2
    /\ ~result.hit

\* C2: in every reachable state, under every policy (RANDOM included) and any
\* interleaving of access() and reset(), no set holds two valid blocks with
\* the same tag.
C2_NoDuplicateTags ==
    \A i \in DOMAIN sim.sets :
        \A j, k \in Ways(sim.sets[i]) :
            (j # k /\ sim.sets[i][j].valid /\ sim.sets[i][k].valid)
                => sim.sets[i][j].tag # sim.sets[i][k].tag

C2_Witness ==
    /\ Accessed /\ result.evicted
    /\ sim.config.replacementPolicy = "RANDOM"
    /\ sim.stats.hits >= 1
    /\ \E i \in DOMAIN sim.sets : Cardinality(Ways(sim.sets[i])) = 2 /\ AllValid(sim.sets[i])

C4_Writebacks ==
    /\ sim.stats.writebacks = dirtyEvicted
    /\ \A call \in AllCalls, random \in Draws :
          LET r == CacheSimulator_access(sim, call[2], call[1], random)
              old == sim.sets[r.result.setIndex][r.result.wayIndex]
          IN  r.sim.stats.writebacks =
                  sim.stats.writebacks
                      + (IF ~r.result.hit /\ old.valid /\ old.dirty THEN 1 ELSE 0)
    /\ (/\ sim.config.associativity = 1
        /\ sim.config.writePolicy = "write-back"
        /\ Followed(DirtyEviction, 2)) => sim.stats.writebacks = 1

C4_Witness ==
    /\ sim.config.associativity = 1
    /\ sim.config.writePolicy = "write-back"
    /\ Followed(DirtyEviction, 2)
    /\ result.evicted
    /\ dirtyEvicted = 1

\* C5: under write-through every block of every set is clean in every
\* reachable state, and writebacks stays 0, for any trace of reads and writes
\* and any policy.
C5_WriteThroughClean ==
    sim.config.writePolicy = "write-through" =>
        /\ \A i \in DOMAIN sim.sets : \A j \in Ways(sim.sets[i]) : ~sim.sets[i][j].dirty
        /\ sim.stats.writebacks = 0

C5_Witness ==
    /\ sim.config.writePolicy = "write-through"
    /\ Followed(DirtyEviction, 2)
    /\ result.evicted

\* C6: for LRU, FIFO and LFU, reset() after any history leaves the engine equal
\* to a newly constructed one of the same config, a trace replayed after it
\* gives the results, stats and sets a new engine gives, and reset() twice is
\* reset() once.
C6_ResetIsFresh ==
    /\ op.kind = "reset" => sim = CacheSimulator_new(candidate)
    /\ sim.config.replacementPolicy \in DeterministicPolicies =>
          (sim = fresh /\ result = freshResult)
    /\ CacheSimulator_reset(CacheSimulator_reset(sim)) = CacheSimulator_reset(sim)
    /\ CacheSimulator_reset(sim) = CacheSimulator_new(candidate)

C6_Witness ==
    /\ op.kind = "reset"
    /\ op.discarded >= 3
    /\ sim.config.replacementPolicy \in DeterministicPolicies
    /\ sim = fresh

\* the way policy order picks in a full set: the least key, the lowest way among equals
LeastLastAccess(blocks, v) ==
    \A j \in Ways(blocks) :
        \/ blocks[v].lastAccessTime < blocks[j].lastAccessTime
        \/ (blocks[v].lastAccessTime = blocks[j].lastAccessTime /\ v <= j)

LeastInsertion(blocks, v) ==
    \A j \in Ways(blocks) :
        \/ blocks[v].insertionTime < blocks[j].insertionTime
        \/ (blocks[v].insertionTime = blocks[j].insertionTime /\ v <= j)

LeastCountThenLastAccess(blocks, v) ==
    \A j \in Ways(blocks) :
        \/ blocks[v].accessCount < blocks[j].accessCount
        \/ /\ blocks[v].accessCount = blocks[j].accessCount
           /\ \/ blocks[v].lastAccessTime < blocks[j].lastAccessTime
              \/ (blocks[v].lastAccessTime = blocks[j].lastAccessTime /\ v <= j)

\* every miss in a full set, from the current state, evicts a way that Least accepts
EvictsOnly(Least(_, _)) ==
    \A call \in AllCalls, random \in Draws :
        LET r == CacheSimulator_access(sim, call[2], call[1], random)
            blocks == sim.sets[extractIndex(sim, call[2])]
        IN  (~r.result.hit /\ AllValid(blocks)) =>
                /\ r.result.evicted
                /\ Least(blocks, r.result.wayIndex)
                /\ r.result.evictedTag = blocks[r.result.wayIndex].tag

Holds(address) ==
    ValidWaysWithTag(sim.sets[extractIndex(sim, address)], extractTag(sim, address)) # {}

\* C7: under LRU a miss in a full set evicts the way with the smallest
\* lastAccessTime, the lowest way on ties (in a one-set cache: of the whole
\* cache); R 0x00, R 0x40, R 0x00, R 0x80 on a 2-way set gives miss, miss, hit,
\* miss and the fourth access evicts 0x40, not 0x00.
C7_LRU ==
    sim.config.replacementPolicy = "LRU" =>
        /\ EvictsOnly(LeastLastAccess)
        /\ sim.config.associativity = 2 =>
              /\ Followed(LRURetainsHot, 1) => ~result.hit
              /\ Followed(LRURetainsHot, 2) => ~result.hit
              /\ Followed(LRURetainsHot, 3) => result.hit
              /\ Followed(LRURetainsHot, 4) =>
                    /\ ~result.hit /\ result.evicted
                    /\ result.evictedTag = extractTag(sim, 64)
                    /\ Holds(0) /\ Holds(128) /\ ~Holds(64)

C7_Witness ==
    /\ sim.config.replacementPolicy = "LRU"
    /\ sim.config.associativity = 2
    /\ Cardinality(DOMAIN sim.sets) = 1
    /\ Followed(LRURetainsHot, 4)
    /\ result.evicted

\* C8: under FIFO a miss in a full set evicts the way with the smallest
\* insertionTime, the lowest way on ties, whatever hits it had; an access
\* changes the insertionTime of a way only by installing a block there on a
\* miss; R 0x00, R 0x40, R 0x00, R 0x80 on a 2-way set evicts 0x00 on the fourth.
C8_FIFO ==
    /\ \A call \in AllCalls, random \in Draws :
          LET r == CacheSimulator_access(sim, call[2], call[1], random)
          IN  \A i \in DOMAIN sim.sets : \A j \in Ways(sim.sets[i]) :
                  r.sim.sets[i][j].insertionTime # sim.sets[i][j].insertionTime =>
                      (~r.result.hit /\ i = r.result.setIndex /\ j = r.result.wayIndex)
    /\ sim.config.replacementPolicy = "FIFO" =>
          /\ EvictsOnly(LeastInsertion)
          /\ (sim.config.associativity = 2 /\ Followed(LRURetainsHot, 4)) =>
                /\ ~result.hit /\ result.evicted
                /\ result.evictedTag = extractTag(sim, 0)
                /\ Holds(64) /\ Holds(128) /\ ~Holds(0)

C8_Witness ==
    /\ sim.config.replacementPolicy = "FIFO"
    /\ sim.config.associativity = 2
    /\ Followed(LRURetainsHot, 4)
    /\ result.evicted
    /\ sim.stats.hits = 1

\* C9: under LFU a miss in a full set evicts the way with the smallest
\* accessCount, then the smallest lastAccessTime, then the lowest way; in a
\* 2-way set after R 0x00 five times and R 0x40 once, R 0x80 evicts 0x40 under
\* LFU and 0x00 under LRU.
C9_LFU ==
    /\ sim.config.replacementPolicy = "LFU" =>
          /\ EvictsOnly(LeastCountThenLastAccess)
          /\ (sim.config.associativity = 2 /\ Followed(LFUProtectsFrequent, 7)) =>
                /\ ~result.hit /\ result.evicted
                /\ result.evictedTag = extractTag(sim, 64)
                /\ Holds(0) /\ ~Holds(64)
    /\ (/\ sim.config.replacementPolicy = "LRU"
        /\ sim.config.associativity = 2
        /\ Followed(LFUProtectsFrequent, 7)) =>
              /\ ~result.hit /\ result.evicted
              /\ result.evictedTag = extractTag(sim, 0)
              /\ Holds(64) /\ ~Holds(0)

C9_Witness ==
    /\ sim.config.replacementPolicy = "LFU"
    /\ sim.config.associativity = 2
    /\ Followed(LFUProtectsFrequent, 7)
    /\ result.evicted
    /\ sim.stats.hits = 4

-----------------------------------------------------------------------------
(* Construction: new CacheSimulator(config) on any configuration *)

\* configurations handed to the constructor, invalid geometries among them
CandidateConfigs ==
    {CacheConfig(cs, bs, a, "LRU", "write-back") :
        cs \in {8, 16, 32, 48, 64}, bs \in {2, 4, 8, 16, 24, 32}, a \in {1, 2, 3, 4}}

InitCtor ==
    /\ candidate \in CandidateConfigs
    /\ sim = NoEngine
    /\ fresh = NoEngine
    /\ result = NoResult
    /\ freshResult = NoResult
    /\ op = [kind |-> "none"]
    /\ trace = NoCalls
    /\ accessCalls = 0
    /\ dirtyEvicted = 0
    /\ snapshot = NoStats
    /\ IdleHier
    /\ IdleSweep
    /\ IdleCompare
    /\ IdleMemory
    /\ IdleTrace
    /\ IdleApp

Construct ==
    /\ sim = NoEngine
    /\ sim' = CacheSimulator_new(candidate)
    /\ fresh' = sim'
    /\ op' = [kind |-> "new"]
    /\ UNCHANGED <<result, freshResult, trace, accessCalls, dirtyEvicted, candidate, snapshot,
                   otherThanCache>>

GetStats ==
    /\ sim # NoEngine
    /\ snapshot = NoStats
    /\ snapshot' = getStats(sim)
    /\ op' = [kind |-> "getStats"]
    /\ UNCHANGED <<sim, fresh, result, freshResult, trace, accessCalls, dirtyEvicted, candidate,
                   otherThanCache>>

NextCtor == Construct \/ GetStats

SpecCtor == InitCtor /\ [][NextCtor]_vars

IsPowerOfTwo(n) == \E k \in 0..30 : n = 2 ^ k

\* the geometries the CacheConfig invariants and section 4.3 accept
ValidGeometry(config) ==
    /\ IsPowerOfTwo(config.cacheSize)
    /\ IsPowerOfTwo(config.blockSize)
    /\ IsPowerOfTwo(config.associativity)
    /\ config.blockSize >= 4
    /\ config.cacheSize >= config.blockSize
    /\ config.cacheSize >= config.blockSize * config.associativity

\* C10: construction with an invalid geometry fails before any stats can be
\* produced: there is no engine, and getStats() returns nothing, unless the
\* geometry is valid.
C10_InvalidGeometryRejected ==
    /\ sim # NoEngine => ValidGeometry(candidate)
    /\ snapshot # NoStats => ValidGeometry(candidate)

-----------------------------------------------------------------------------
(* One MultiLevelCacheSimulator under arbitrary access() and reset() calls *)

L1Small == CacheConfig(32, 16, 1, "LRU", "write-back")
L1Counting == CacheConfig(32, 16, 1, "LFU", "write-through")
L1Random == CacheConfig(32, 16, 2, "RANDOM", "write-back")
L2Large == CacheConfig(128, 16, 2, "LRU", "write-back")
L2Through == CacheConfig(128, 16, 2, "LRU", "write-through")
L2Wide == CacheConfig(64, 32, 2, "FIFO", "write-back")

SRAMConfig == MemoryConfig(1, 10, 128, 2000, "SRAM", 1)
NarrowConfig == MemoryConfig(1, 50, 32, 1600, "DDR3", 2)

\* the constructor arguments: both levels, one level, no level; the default
\* memory, a wide bus, and a bus whose burst is shorter than a block
HierarchySetups ==
    {[config |-> MultiLevelCacheConfig(L1Small, L2Large, TRUE, TRUE), memoryConfig |-> Undefined],
     [config |-> MultiLevelCacheConfig(L1Random, L2Wide, TRUE, TRUE), memoryConfig |-> SRAMConfig],
     [config |-> MultiLevelCacheConfig(L1Counting, L2Large, TRUE, TRUE), memoryConfig |-> NarrowConfig],
     [config |-> MultiLevelCacheConfig(L1Small, L2Large, TRUE, FALSE), memoryConfig |-> Undefined],
     [config |-> MultiLevelCacheConfig(L1Small, L2Wide, FALSE, TRUE), memoryConfig |-> NarrowConfig],
     [config |-> MultiLevelCacheConfig(L1Small, L2Through, FALSE, TRUE), memoryConfig |-> Undefined],
     [config |-> MultiLevelCacheConfig(L1Small, L2Large, FALSE, FALSE), memoryConfig |-> Undefined],
     [config |-> MultiLevelCacheConfig(L1Small, L2Large, FALSE, FALSE), memoryConfig |-> SRAMConfig]}

HierarchyAddresses == {0, 16, 32}
HierarchyCalls == {<<w, a>> : w \in BOOLEAN, a \in HierarchyAddresses}

\* the values Math.random() can select in a level: one per way under RANDOM
LevelDraws(level) ==
    IF level # Null /\ level.config.replacementPolicy = "RANDOM"
    THEN 0..(level.config.associativity - 1)
    ELSE {0}

InitHier ==
    /\ \E setup \in HierarchySetups :
          hier = MultiLevelCacheSimulator_new(setup.config, setup.memoryConfig)
    /\ hfresh = hier
    /\ hresult = NoResult
    /\ hfreshResult = NoResult
    /\ hop = [kind |-> "new"]
    /\ hcalls = 0
    /\ IdleCache
    /\ IdleSweep
    /\ IdleCompare
    /\ IdleMemory
    /\ IdleTrace
    /\ IdleApp

HierAccess ==
    /\ hcalls < MaxAccesses
    /\ \E call \in HierarchyCalls, random1 \in LevelDraws(hier.l1), random2 \in LevelDraws(hier.l2) :
          LET r == MultiLevelCacheSimulator_access(hier, call[2], call[1], random1, random2)
              f == MultiLevelCacheSimulator_access(hfresh, call[2], call[1], random1, random2)
          IN  /\ hier' = r.sim
              /\ hresult' = r.result
              /\ hfresh' = f.sim
              /\ hfreshResult' = f.result
              /\ hop' = [kind |-> "access", call |-> call, before |-> hier.combinedStats]
              /\ hcalls' = hcalls + 1
    /\ UNCHANGED otherThanHier

HierReset ==
    /\ hier' = MultiLevelCacheSimulator_reset(hier)
    /\ hfresh' = MultiLevelCacheSimulator_new(hfresh.config, hfresh.memoryConfig)
    /\ hresult' = NoResult
    /\ hfreshResult' = NoResult
    /\ hop' = [kind |-> "reset", discarded |-> hcalls]
    /\ hcalls' = 0
    /\ UNCHANGED otherThanHier

NextHier == HierAccess \/ HierReset

SpecHier == InitHier /\ [][NextHier]_vars

-----------------------------------------------------------------------------
(* Vocabulary of the hierarchy's properties *)

\* every access() that can be called in the current state, with what it
\* returns: the call, the hierarchy before and the hierarchy and result after
HierarchyStep(call, d1, d2) ==
    LET r == MultiLevelCacheSimulator_access(hier, call[2], call[1], d1, d2)
    IN  [call |-> call, before |-> hier, after |-> r.sim, result |-> r.result]

HierarchySteps ==
    {HierarchyStep(call, d1, d2) :
        call \in HierarchyCalls, d1 \in LevelDraws(hier.l1), d2 \in LevelDraws(hier.l2)}

EnabledL1(s) == s.before.config.enabled.l1
EnabledL2(s) == s.before.config.enabled.l2

\* a component was accessed when the call changed its state: each access
\* advances the component's clock
VisitedL1(s) == s.after.l1 # s.before.l1
VisitedL2(s) == s.after.l2 # s.before.l2
VisitedMemory(s) == s.after.memory # s.before.memory

MissedL1(s) == EnabledL1(s) /\ s.after.l1.stats.misses = s.before.l1.stats.misses + 1
MissedL2(s) == EnabledL2(s) /\ s.after.l2.stats.misses = s.before.l2.stats.misses + 1

Listed(visited, name) == IF visited THEN <<name>> ELSE << >>

\* C11: every access() visits L1 iff L1 is enabled, L2 iff L2 is enabled and
\* L1 is disabled or missed, and memory iff every enabled level missed;
\* dataPath lists the visited components in the order L1, L2, Memory, and
\* l1Result, l2Result and memoryResult are present for exactly those.
C11_Routing ==
    \A s \in HierarchySteps :
        /\ VisitedL1(s) <=> EnabledL1(s)
        /\ VisitedL2(s) <=> (EnabledL2(s) /\ (~EnabledL1(s) \/ MissedL1(s)))
        /\ VisitedMemory(s) <=>
              ((EnabledL1(s) => MissedL1(s)) /\ (EnabledL2(s) => MissedL2(s)))
        /\ s.result.dataPath =
              Listed(VisitedL1(s), "L1") \o Listed(VisitedL2(s), "L2")
                \o Listed(VisitedMemory(s), "Memory")
        /\ (s.result.l1Result # Undefined) <=> VisitedL1(s)
        /\ (s.result.l2Result # Undefined) <=> VisitedL2(s)
        /\ (s.result.memoryResult # Undefined) <=> VisitedMemory(s)

\* an access that missed L1 and hit L2, in a state from which a repeated
\* access stops at L1
C11_Witness ==
    /\ hop.kind = "access"
    /\ hresult.dataPath = <<"L1", "L2">>
    /\ ~hresult.l1Result.hit
    /\ hresult.l2Result.hit
    /\ hresult.memoryResult = Undefined
    /\ \E s \in HierarchySteps : s.result.dataPath = <<"L1">>

\* the bytes one bus transfer carries and the bytes one memory access moves
BusBytes(h) == h.memoryConfig.busWidthBits \div 8
BlockSizeOf(h) ==
    IF h.config.enabled.l1 THEN h.config.l1.blockSize
    ELSE IF h.config.enabled.l2 THEN h.config.l2.blockSize
    ELSE 64
TransferSize(h) ==
    LET burst == BusBytes(h) * h.memoryConfig.burstLength
    IN  IF BlockSizeOf(h) >= burst THEN BlockSizeOf(h) ELSE burst

\* latencyCycles + ceil(T / (busWidthBits/8)): the ceiling is the least
\* number of bus transfers that carry T bytes
MemoryLatency(h) ==
    h.memoryConfig.latencyCycles
      + (CHOOSE n \in 0..TransferSize(h) :
            /\ n * BusBytes(h) >= TransferSize(h)
            /\ (n - 1) * BusBytes(h) < TransferSize(h))

\* latency 100, 64-bit bus, burst 8, 16-byte blocks, both levels enabled
IsExampleHierarchy(h) ==
    /\ h.config.enabled.l1 /\ h.config.enabled.l2
    /\ h.config.l1.blockSize = 16
    /\ h.memoryConfig.latencyCycles = 100
    /\ h.memoryConfig.busWidthBits = 64
    /\ h.memoryConfig.burstLength = 8

\* C12: totalLatency of every access() is 1 if L1 was visited, plus 10 if L2
\* was visited, plus latencyCycles + ceil(T / (busWidthBits/8)) with
\* T = max(blockSize, (busWidthBits/8) * burstLength) if memory was visited;
\* with latency 100, a 64-bit bus, burst 8 and 16-byte blocks a cold access
\* through both levels costs 1 + 10 + 108 and its immediate repetition 1.
C12_Latency ==
    \A s \in HierarchySteps :
        /\ s.result.totalLatency =
              (IF VisitedL1(s) THEN 1 ELSE 0)
              + (IF VisitedL2(s) THEN 10 ELSE 0)
              + (IF VisitedMemory(s) THEN MemoryLatency(hier) ELSE 0)
        /\ IsExampleHierarchy(hier) /\ hcalls = 0 =>
              s.result.totalLatency = 1 + 10 + 108
        /\ IsExampleHierarchy(hier) /\ hcalls = 1 /\ s.call = hop.call =>
              s.result.totalLatency = 1

\* the example's cold access was made and cost 119; a block larger than the
\* burst is transferred in another hierarchy
C12_Witness ==
    /\ IsExampleHierarchy(hier)
    /\ hcalls = 1
    /\ hop.kind = "access"
    /\ hresult.totalLatency = 119
    /\ \E s \in HierarchySteps : s.call = hop.call /\ s.result.totalLatency = 1

HitL1(s) == EnabledL1(s) /\ s.after.l1.stats.hits = s.before.l1.stats.hits + 1
HitL2(s) == EnabledL2(s) /\ s.after.l2.stats.hits = s.before.l2.stats.hits + 1

\* C13: every access() is recorded in the combined stats as one combined hit
\* (some enabled level hit) or one combined miss (every enabled level missed
\* and memory was accessed), never both; after N accesses combined
\* hits + misses = totalAccesses = N.
C13_CombinedCounting ==
    /\ \A s \in HierarchySteps :
          LET b == s.before.combinedStats
              a == s.after.combinedStats
          IN  /\ a.totalAccesses = b.totalAccesses + 1
              /\ (HitL1(s) \/ HitL2(s)) =>
                    (a.hits = b.hits + 1 /\ a.misses = b.misses /\ ~VisitedMemory(s))
              /\ ~(HitL1(s) \/ HitL2(s)) =>
                    (a.hits = b.hits /\ a.misses = b.misses + 1 /\ VisitedMemory(s))
    /\ hier.combinedStats.hits + hier.combinedStats.misses = hier.combinedStats.totalAccesses
    /\ hier.combinedStats.totalAccesses = hcalls

C13_Witness ==
    /\ hcalls = 3
    /\ hier.combinedStats.hits = 1
    /\ hier.combinedStats.misses = 2
    /\ hresult.dataPath = <<"L2">>

Counted(stats) == stats.hits + stats.misses = stats.totalAccesses

\* C14 as stated: after N accesses hits + misses = totalAccesses = N at every
\* enabled cache level and in the combined stats.
C14_EveryLevelCountsEveryAccess ==
    /\ hier.l1 # Null => (Counted(hier.l1.stats) /\ hier.l1.stats.totalAccesses = hcalls)
    /\ hier.l2 # Null => (Counted(hier.l2.stats) /\ hier.l2.stats.totalAccesses = hcalls)
    /\ Counted(hier.combinedStats) /\ hier.combinedStats.totalAccesses = hcalls

\* C14 amended: after N accesses hits + misses = totalAccesses at every
\* enabled level and in the combined stats; totalAccesses = N in the combined
\* stats, at L1 when it is enabled and at L2 when L1 is disabled; with both
\* levels enabled L2 counts the L1 misses only.
C14_LevelCounting ==
    /\ hier.l1 # Null => (Counted(hier.l1.stats) /\ hier.l1.stats.totalAccesses = hcalls)
    /\ hier.l2 # Null => Counted(hier.l2.stats)
    /\ hier.l2 # Null /\ hier.l1 = Null => hier.l2.stats.totalAccesses = hcalls
    /\ hier.l2 # Null /\ hier.l1 # Null =>
          hier.l2.stats.totalAccesses = hier.l1.stats.misses
    /\ Counted(hier.combinedStats) /\ hier.combinedStats.totalAccesses = hcalls

\* three accesses through both levels, one of them an L1 hit that L2 never saw
C14_Witness ==
    /\ hier.l1 # Null /\ hier.l2 # Null
    /\ hcalls = 3
    /\ hier.l1.stats.hits = 1
    /\ hier.l2.stats.totalAccesses = 2

\* C15 as stated: the totalLatency reported by each access is strictly
\* positive and never less than the totalLatency of the access before it.
C15_LatencyNeverDecreases ==
    \A s \in HierarchySteps :
        /\ s.result.totalLatency > 0
        /\ hop.kind = "access" => s.result.totalLatency >= hresult.totalLatency

\* C15 amended: the totalLatency reported by each access is strictly positive
\* (so the cycles summed over the accesses strictly increase); the reported
\* values themselves may fall from one access to the next.
C15_LatencyPositive ==
    \A s \in HierarchySteps : s.result.totalLatency > 0

\* an access that reached memory, in a state where the next access can stop
\* at a cache level and report fewer cycles
C15_Witness ==
    /\ hop.kind = "access"
    /\ hresult.memoryResult # Undefined
    /\ \E s \in HierarchySteps :
          /\ s.result.totalLatency > 0
          /\ s.result.totalLatency < hresult.totalLatency

DeterministicLevel(level) ==
    level = Null \/ level.config.replacementPolicy \in DeterministicPolicies

\* the constructor arguments of the hierarchy under test
Constructed == MultiLevelCacheSimulator_new(hfresh.config, hfresh.memoryConfig)

\* what a hierarchy shows of a memory that was never accessed
UntouchedMemory(m) ==
    /\ m.stats.totalReads = 0 /\ m.stats.totalWrites = 0
    /\ m.stats.totalAccesses = 0 /\ m.stats.bytesTransferred = 0
    /\ m.stats.averageLatency = Zero
    /\ m.stats.bandwidthUtilization = Zero
    /\ m.stats.effectiveBandwidthMBps = Zero
    /\ m.stats.peakBandwidthMBps = calculatePeakBandwidth(hfresh.memoryConfig)
    /\ m.accessHistory = << >>
    /\ DOMAIN m.regions = 0..15
    /\ \A i \in DOMAIN m.regions : m.regions[i] = ZeroRegion

\* C16: reset() after any history leaves the hierarchy equal to a newly
\* constructed one of the same configs (L1 and L2 stats and sets, combined
\* stats, memoryAccesses, memory stats with the peak bandwidth recomputed,
\* empty access history, sixteen regions of zero boundaries and counters), and
\* under LRU, FIFO and LFU a trace replayed after reset() gives the results a
\* new hierarchy gives.
C16_HierarchyResetIsFresh ==
    /\ LET afterReset == MultiLevelCacheSimulator_reset(hier)
       IN  /\ afterReset = Constructed
           /\ UntouchedMemory(afterReset.memory)
           /\ afterReset.memoryAccesses = 0
           /\ afterReset.combinedStats = ZeroStats
    /\ hop.kind = "reset" => hier = Constructed
    /\ DeterministicLevel(hier.l1) /\ DeterministicLevel(hier.l2) =>
          (hier = hfresh /\ hresult = hfreshResult)

\* reset() was called after three accesses through both levels
C16_Witness ==
    /\ hop.kind = "reset"
    /\ hop.discarded = 3
    /\ hier.l1 # Null /\ hier.l2 # Null
    /\ DeterministicLevel(hier.l1) /\ DeterministicLevel(hier.l2)
    /\ hier = hfresh
    /\ UntouchedMemory(hier.memory)

\* the arguments calculateAMAT is called with
HitTimes == {<<1, 10>>, <<2, 7>>}
Penalties == {NotGiven, Given(50), Given(200)}

\* the miss rate of a level as misses over accesses, 1 for a level without accesses
MissRate(level) ==
    IF level.stats.totalAccesses = 0 THEN <<1, 1>>
    ELSE <<level.stats.misses, level.stats.totalAccesses>>

\* the fraction x equals n / d
IsQuotient(x, n, d) == x.den # 0 /\ x.num * d = n * x.den

\* C17: calculateAMAT(h1, h2, M) is M when no level is enabled,
\* h1 + (1 - L1 hit rate) * M when only L1 is, h2 + (1 - L2 hit rate) * M when
\* only L2 is, and h1 + (1 - L1 hit rate) * (h2 + (1 - L2 hit rate) * M) when
\* both are, from the current stats of the levels; a level without accesses
\* has miss rate 1, and M is the memory config's latencyCycles when not given.
C17_HierarchyAMAT ==
    \A t \in HitTimes, p \in Penalties :
        LET h1 == t[1]
            h2 == t[2]
            M == IF p.given THEN p.value ELSE hier.memoryConfig.latencyCycles
            amat == MultiLevelCacheSimulator_calculateAMAT(hier, h1, h2, p)
            m1 == MissRate(hier.l1)
            m2 == MissRate(hier.l2)
        IN  /\ ~hier.config.enabled.l1 /\ ~hier.config.enabled.l2 =>
                  IsQuotient(amat, M, 1)
            /\ hier.config.enabled.l1 /\ ~hier.config.enabled.l2 =>
                  IsQuotient(amat, h1 * m1[2] + m1[1] * M, m1[2])
            /\ ~hier.config.enabled.l1 /\ hier.config.enabled.l2 =>
                  IsQuotient(amat, h2 * m2[2] + m2[1] * M, m2[2])
            /\ hier.config.enabled.l1 /\ hier.config.enabled.l2 =>
                  IsQuotient(amat,
                             h1 * m1[2] * m2[2] + m1[1] * (h2 * m2[2] + m2[1] * M),
                             m1[2] * m2[2])

\* both levels have hit and missed: L1 hit rate 1/3, L2 hit rate 1/2, memory
\* latency 10, so the AMAT is 1 + 2/3 * (10 + 1/2 * 10) = 11
C17_Witness ==
    /\ hier.l1 # Null /\ hier.l2 # Null
    /\ hier.l1.stats.hitRate = Div(1, 3)
    /\ hier.l2.stats.hitRate = Div(1, 2)
    /\ hier.memoryConfig.latencyCycles = 10
    /\ MultiLevelCacheSimulator_calculateAMAT(hier, 1, 10, NotGiven) = Whole(11)

-----------------------------------------------------------------------------
(* The optimizer sweeps *)

\* Math.log2 of an integer x >= 1: exact for a power of two, otherwise rounded
\* down to a multiple of 1/8 (the greatest m / 8 with 2^m <= x^8, for x < 15)
Math_log2(x) ==
    IF \E k \in 0..20 : x = 2 ^ k THEN Whole(Log2(x, 1))
    ELSE Div(CHOOSE m \in 0..30 : 2 ^ m <= x ^ 8 /\ (m = 30 \/ 2 ^ (m + 1) > x ^ 8), 8)

\* Math.floor(Math.random() * associativity) for Math.random() = draw / 2
victimDraw(draw, associativity) == (draw * associativity) \div 2

\* for (const entry of trace) sim.access(entry.address, entry.isWrite), from
\* entry j on; draws[j] is what Math.random() gives during access j
RECURSIVE replay(_, _, _, _)
replay(c, entries, draws, j) ==
    IF j > Len(entries) THEN c
    ELSE replay(CacheSimulator_access(c, entries[j][2], entries[j][1],
                                      victimDraw(draws[j], c.config.associativity)).sim,
                entries, draws, j + 1)

RECURSIVE replayHierarchy(_, _, _, _)
replayHierarchy(h, entries, draws, j) ==
    IF j > Len(entries) THEN h
    ELSE replayHierarchy(
            MultiLevelCacheSimulator_access(h, entries[j][2], entries[j][1],
                victimDraw(draws[j], h.config.l1.associativity),
                victimDraw(draws[j], h.config.l2.associativity)).sim,
            entries, draws, j + 1)

\* if (cacheSize / blockSize < assoc) continue
skipped_AtEquality(cacheSize, blockSize, assoc) == cacheSize <= assoc * blockSize

skipped(cacheSize, blockSize, assoc) == cacheSize < assoc * blockSize

\* if (l2SizeKB <= l1SizeKB) continue
skippedPair(l1SizeKB, l2SizeKB) == l2SizeKB <= l1SizeKB

\* score = (1 / amat) * (1 / (1 + costFactor))
score(amat, costFactor) ==
    RatMul(RatDiv(Whole(1), amat), RatDiv(Whole(1), RatAdd(Whole(1), costFactor)))

\* results.sort((a, b) => b.score - a.score): the sort is stable, an element
\* goes behind the elements it does not beat
sortByScore_Unsorted(results) == results

RECURSIVE sortByScore(_)
sortByScore(results) ==
    IF results = << >> THEN << >>
    ELSE LET n == Len(results)
             e == results[n]
             rest == sortByScore(SubSeq(results, 1, n - 1))
             ahead == Cardinality({i \in 1..(n - 1) : ~RatLess(rest[i].score, e.score)})
         IN  SubSeq(rest, 1, ahead) \o <<e>> \o SubSeq(rest, ahead + 1, n - 1)

\* the loop nest of the single-level sweeps, outermost first: sizeKB, assoc,
\* blockSize, policy
singleLevelCombinations(sizesKB, associativities, blockSizes, replacementPolicies) ==
    LET np == Len(replacementPolicies)
        nb == Len(blockSizes)
        na == Len(associativities)
    IN  [k \in 1..(Len(sizesKB) * na * nb * np) |->
            [sizeKB |-> sizesKB[((k - 1) \div (np * nb * na)) + 1],
             assoc |-> associativities[(((k - 1) \div (np * nb)) % na) + 1],
             blockSize |-> blockSizes[(((k - 1) \div np) % nb) + 1],
             policy |-> replacementPolicies[((k - 1) % np) + 1]]]

\* the body of the loop nest for one combination that is not skipped
singleLevelResult(entries, combo, draws) ==
    LET config == CacheConfig(combo.sizeKB * 1024, combo.blockSize, combo.assoc,
                              combo.policy, "write-back")
        engine == replay(CacheSimulator_new(config), entries, draws, 1)
        amat == CacheSimulator_calculateAMAT(engine, DefaultHitTime, DefaultMissPenalty)
        costFactor == RatMul(Math_log2(combo.sizeKB), Div(1, 10))
    IN  [config |-> config, stats |-> getStats(engine), amat |-> amat,
         score |-> score(amat, costFactor)]

RECURSIVE singleLevelResults(_, _, _, _)
singleLevelResults(entries, combos, draws, k) ==
    IF k > Len(combos) THEN << >>
    ELSE IF skipped(combos[k].sizeKB * 1024, combos[k].blockSize, combos[k].assoc)
    THEN singleLevelResults(entries, combos, draws, k + 1)
    ELSE <<singleLevelResult(entries, combos[k], draws)>>
            \o singleLevelResults(entries, combos, draws, k + 1)

runSingleLevelOptimization(entries, sizesKB, associativities, blockSizes, replacementPolicies, draws) ==
    sortByScore(singleLevelResults(entries,
        singleLevelCombinations(sizesKB, associativities, blockSizes, replacementPolicies),
        draws, 1))

\* the same loop nest with the policy fixed to LRU, which draws nothing
runOptimization(entries, sizesKB, associativities, blockSizes) ==
    sortByScore(singleLevelResults(entries,
        singleLevelCombinations(sizesKB, associativities, blockSizes, <<"LRU">>),
        [j \in 1..Len(entries) |-> 0], 1))

\* the loop nest of the multi-level sweep, outermost first: l1SizeKB,
\* l2SizeKB, l1Assoc, l2Assoc, l1BlockSize, l2BlockSize, policy
multiLevelCombinations(l1SizesKB, l2SizesKB, l1Associativities, l2Associativities, l1BlockSizes, l2BlockSizes, replacementPolicies) ==
    LET np == Len(replacementPolicies)
        nb2 == np * Len(l2BlockSizes)
        nb1 == nb2 * Len(l1BlockSizes)
        na2 == nb1 * Len(l2Associativities)
        na1 == na2 * Len(l1Associativities)
        ns2 == na1 * Len(l2SizesKB)
    IN  [k \in 1..(ns2 * Len(l1SizesKB)) |->
            [l1SizeKB |-> l1SizesKB[((k - 1) \div ns2) + 1],
             l2SizeKB |-> l2SizesKB[(((k - 1) \div na1) % Len(l2SizesKB)) + 1],
             l1Assoc |-> l1Associativities[(((k - 1) \div na2) % Len(l1Associativities)) + 1],
             l2Assoc |-> l2Associativities[(((k - 1) \div nb1) % Len(l2Associativities)) + 1],
             l1BlockSize |-> l1BlockSizes[(((k - 1) \div nb2) % Len(l1BlockSizes)) + 1],
             l2BlockSize |-> l2BlockSizes[(((k - 1) \div np) % Len(l2BlockSizes)) + 1],
             policy |-> replacementPolicies[((k - 1) % np) + 1]]]

\* the body of the loop nest for one combination that is not skipped;
\* calculateAMAT() is called with its defaults, hit times 1 and 10
multiLevelResult(entries, combo, draws) ==
    LET l1Config == CacheConfig(combo.l1SizeKB * 1024, combo.l1BlockSize, combo.l1Assoc,
                                combo.policy, "write-back")
        l2Config == CacheConfig(combo.l2SizeKB * 1024, combo.l2BlockSize, combo.l2Assoc,
                                combo.policy, "write-back")
        multiConfig == MultiLevelCacheConfig(l1Config, l2Config, TRUE, TRUE)
        engine == replayHierarchy(MultiLevelCacheSimulator_new(multiConfig, Undefined),
                                  entries, draws, 1)
        amat == MultiLevelCacheSimulator_calculateAMAT(engine, 1, 10, NotGiven)
        totalSize == l1Config.cacheSize + l2Config.cacheSize
        costFactor == RatMul(Math_log2(totalSize \div 1024), Div(1, 20))
    IN  [l1Config |-> l1Config, l2Config |-> l2Config,
         l1Stats |-> getStats(engine.l1), l2Stats |-> getStats(engine.l2),
         combinedStats |-> engine.combinedStats,
         amat |-> amat, score |-> score(amat, costFactor), totalSize |-> totalSize]

RECURSIVE multiLevelResults(_, _, _, _)
multiLevelResults(entries, combos, draws, k) ==
    IF k > Len(combos) THEN << >>
    ELSE IF \/ skippedPair(combos[k].l1SizeKB, combos[k].l2SizeKB)
            \/ skipped(combos[k].l1SizeKB * 1024, combos[k].l1BlockSize, combos[k].l1Assoc)
            \/ skipped(combos[k].l2SizeKB * 1024, combos[k].l2BlockSize, combos[k].l2Assoc)
    THEN multiLevelResults(entries, combos, draws, k + 1)
    ELSE <<multiLevelResult(entries, combos[k], draws)>>
            \o multiLevelResults(entries, combos, draws, k + 1)

runMultiLevelOptimization(entries, l1SizesKB, l2SizesKB, l1Associativities, l2Associativities, l1BlockSizes, l2BlockSizes, replacementPolicies, draws) ==
    sortByScore(multiLevelResults(entries,
        multiLevelCombinations(l1SizesKB, l2SizesKB, l1Associativities, l2Associativities,
                               l1BlockSizes, l2BlockSizes, replacementPolicies),
        draws, 1))

-----------------------------------------------------------------------------
(* One call of a sweep on a trace and lists of sizes, associativities, block
   sizes and policies *)

SweepCalls == {<<FALSE, 0>>, <<TRUE, 1024>>, <<FALSE, 2048>>}
SweepTraces == UNION {[1..n -> SweepCalls] : n \in 0..MaxAccesses}

SweepLists(sizesKB, associativities, blockSizes, replacementPolicies, l2SizesKB, l2Associativities, l2BlockSizes) ==
    [sizesKB |-> sizesKB, associativities |-> associativities, blockSizes |-> blockSizes,
     replacementPolicies |-> replacementPolicies, l2SizesKB |-> l2SizesKB,
     l2Associativities |-> l2Associativities, l2BlockSizes |-> l2BlockSizes]

\* lists of which some combinations are skipped, lists given largest size
\* last and largest size first, and lists that are not powers of two
SweepInputs ==
    {SweepLists(<<1, 2>>, <<1, 2>>, <<512, 1024>>, <<"LRU", "RANDOM">>, <<2, 4>>, <<2>>, <<1024>>),
     SweepLists(<<2, 1>>, <<4>>, <<512>>, <<"FIFO", "LFU">>, <<1, 4>>, <<4, 16>>, <<512>>),
     SweepLists(<<1, 4>>, <<1>>, <<512>>, <<"LRU">>, <<8>>, <<1>>, <<512>>),
     SweepLists(<<3>>, <<3>>, <<512>>, <<"LRU">>, <<6>>, <<3>>, <<1024>>)}

\* what Math.random() can give during each access of the replays
SweepDraws(in) ==
    IF \E i \in DOMAIN in.lists.replacementPolicies :
            in.lists.replacementPolicies[i] = "RANDOM"
    THEN [1..Len(in.entries) -> {0, 1}]
    ELSE {[j \in 1..Len(in.entries) |-> 0]}

InitSweep ==
    /\ \E entries \in SweepTraces, lists \in SweepInputs :
          sweepIn = [entries |-> entries, lists |-> lists]
    /\ sweepOut = NoSweep
    /\ IdleCache
    /\ IdleHier
    /\ IdleCompare
    /\ IdleMemory
    /\ IdleTrace
    /\ IdleApp

RunOptimization ==
    /\ sweepOut = NoSweep
    /\ sweepOut' =
          [kind |-> "runOptimization",
           results |-> runOptimization(sweepIn.entries, sweepIn.lists.sizesKB,
                                       sweepIn.lists.associativities,
                                       sweepIn.lists.blockSizes)]
    /\ UNCHANGED <<sweepIn, otherThanSweep>>

RunSingleLevelOptimization ==
    /\ sweepOut = NoSweep
    /\ \E draws \in SweepDraws(sweepIn) :
          sweepOut' =
             [kind |-> "runSingleLevelOptimization",
              results |-> runSingleLevelOptimization(sweepIn.entries, sweepIn.lists.sizesKB,
                              sweepIn.lists.associativities, sweepIn.lists.blockSizes,
                              sweepIn.lists.replacementPolicies, draws)]
    /\ UNCHANGED <<sweepIn, otherThanSweep>>

RunMultiLevelOptimization ==
    /\ sweepOut = NoSweep
    /\ \E draws \in SweepDraws(sweepIn) :
          sweepOut' =
             [kind |-> "runMultiLevelOptimization",
              results |-> runMultiLevelOptimization(sweepIn.entries, sweepIn.lists.sizesKB,
                              sweepIn.lists.l2SizesKB, sweepIn.lists.associativities,
                              sweepIn.lists.l2Associativities, sweepIn.lists.blockSizes,
                              sweepIn.lists.l2BlockSizes,
                              sweepIn.lists.replacementPolicies, draws)]
    /\ UNCHANGED <<sweepIn, otherThanSweep>>

NextSweep == RunOptimization \/ RunSingleLevelOptimization \/ RunMultiLevelOptimization

SpecSweep == InitSweep /\ [][NextSweep]_vars

-----------------------------------------------------------------------------
(* Vocabulary of the sweeps' properties *)

Elements(list) == {list[i] : i \in DOMAIN list}
Ran == sweepOut # NoSweep
RanSingleLevel == Ran /\ sweepOut.kind \in {"runOptimization", "runSingleLevelOptimization"}
RanMultiLevel == Ran /\ sweepOut.kind = "runMultiLevelOptimization"

\* the policies a sweep goes through: runOptimization has LRU only
SweptPolicies ==
    IF sweepOut.kind = "runOptimization" THEN {"LRU"}
    ELSE Elements(sweepIn.lists.replacementPolicies)

\* cacheSize / blockSize >= associativity, for a size in KiB
Fits(sizeKB, blockSize, assoc) == ~((sizeKB * 1024) \div blockSize < assoc)

\* the configs of the combinations of the input lists that pass the constraints
PassingSingle ==
    {CacheConfig(sizeKB * 1024, blockSize, assoc, policy, "write-back") :
        <<sizeKB, assoc, blockSize, policy>> \in
            {c \in Elements(sweepIn.lists.sizesKB) \X Elements(sweepIn.lists.associativities)
                     \X Elements(sweepIn.lists.blockSizes) \X SweptPolicies :
                Fits(c[1], c[3], c[2])}}

PassingMulti ==
    {<<CacheConfig(c[1] * 1024, c[3], c[2], c[7], "write-back"),
       CacheConfig(c[4] * 1024, c[6], c[5], c[7], "write-back")>> :
        c \in {c \in Elements(sweepIn.lists.sizesKB) \X Elements(sweepIn.lists.associativities)
                     \X Elements(sweepIn.lists.blockSizes)
                     \X Elements(sweepIn.lists.l2SizesKB)
                     \X Elements(sweepIn.lists.l2Associativities)
                     \X Elements(sweepIn.lists.l2BlockSizes) \X SweptPolicies :
                /\ c[4] > c[1]
                /\ Fits(c[1], c[3], c[2])
                /\ Fits(c[4], c[6], c[5])}}

NoDraws == [j \in 1..Len(sweepIn.entries) |-> 0]

\* C18: the result list of a sweep has exactly one entry for every
\* combination of the input lists that passes the constraints and none for a
\* combination that fails them (cacheSize/blockSize < associativity at a
\* level, or l2 size not above l1 size in the multi-level sweep), and every
\* entry holds the stats of the whole trace replayed on an engine of its own:
\* its level-1 and combined totalAccesses are the length of the trace.
C18_SweepCoversPassing ==
    /\ RanSingleLevel =>
          LET results == sweepOut.results
          IN  /\ \A config \in PassingSingle :
                    Cardinality({i \in DOMAIN results : results[i].config = config}) = 1
              /\ \A i \in DOMAIN results :
                    /\ results[i].config \in PassingSingle
                    /\ results[i].stats.totalAccesses = Len(sweepIn.entries)
                    /\ results[i].config.replacementPolicy \in DeterministicPolicies =>
                          results[i].stats =
                             replay(CacheSimulator_new(results[i].config),
                                    sweepIn.entries, NoDraws, 1).stats
    /\ RanMultiLevel =>
          LET results == sweepOut.results
          IN  /\ \A pair \in PassingMulti :
                    Cardinality({i \in DOMAIN results :
                        <<results[i].l1Config, results[i].l2Config>> = pair}) = 1
              /\ \A i \in DOMAIN results :
                    /\ <<results[i].l1Config, results[i].l2Config>> \in PassingMulti
                    /\ results[i].l1Stats.totalAccesses = Len(sweepIn.entries)
                    /\ results[i].combinedStats.totalAccesses = Len(sweepIn.entries)
                    /\ results[i].l2Stats.totalAccesses = results[i].l1Stats.misses

\* a multi-level sweep of a trace of three entries in which a pair of sizes,
\* an L1 geometry and an L2 geometry were dropped and two combinations passed
C18_Witness ==
    /\ RanMultiLevel
    /\ Len(sweepIn.entries) = 3
    /\ sweepIn.lists.sizesKB = <<2, 1>>
    /\ sweepIn.lists.l2Associativities = <<4, 16>>
    /\ Len(sweepOut.results) = 2
    /\ Cardinality(PassingMulti) = 2

\* the CacheConfig invariants a swept configuration is to satisfy
SweepGeometryValid(config) ==
    /\ IsPowerOfTwo(config.cacheSize)
    /\ IsPowerOfTwo(config.blockSize)
    /\ IsPowerOfTwo(config.associativity)
    /\ config.cacheSize % (config.blockSize * config.associativity) = 0
    /\ IsPowerOfTwo(config.cacheSize \div (config.blockSize * config.associativity))
    /\ config.cacheSize \div config.blockSize >= config.associativity

\* C19: whatever the input lists, every configuration in a sweep's result
\* list satisfies the CacheConfig invariants (cacheSize, blockSize and
\* associativity powers of two, a power-of-two number of sets,
\* cacheSize/blockSize >= associativity): no other configuration is given an
\* engine, a score or an entry.
C19_SweepSkipsInvalid ==
    /\ RanSingleLevel =>
          \A i \in DOMAIN sweepOut.results : SweepGeometryValid(sweepOut.results[i].config)
    /\ RanMultiLevel =>
          \A i \in DOMAIN sweepOut.results :
              /\ SweepGeometryValid(sweepOut.results[i].l1Config)
              /\ SweepGeometryValid(sweepOut.results[i].l2Config)

\* score * AMAT * (1 + log2(sizeKB) * factor) = 1, for factor = 1 / perUnit
IsScore(x, amat, sizeKB, perUnit) ==
    LET log == Math_log2(sizeKB)
    IN  x.num * amat.num * (perUnit * log.den + log.num)
            = x.den * amat.den * perUnit * log.den

\* C20: the list a sweep returns is ordered by score, highest first, where
\* score = (1/AMAT) * 1/(1 + costFactor) with costFactor = log2(size in KiB)
\* * 0.1 in the single-level sweeps and log2(total size in KiB) * 0.05 in the
\* multi-level sweep; the first element has the greatest score.
C20_SortedByScore ==
    Ran =>
        LET results == sweepOut.results
        IN  /\ \A i, j \in DOMAIN results :
                  i < j => ~RatLess(results[i].score, results[j].score)
            /\ \A i \in DOMAIN results : ~RatLess(results[1].score, results[i].score)
            /\ RanSingleLevel =>
                  \A i \in DOMAIN results :
                      IsScore(results[i].score, results[i].amat,
                              results[i].config.cacheSize \div 1024, 10)
            /\ RanMultiLevel =>
                  \A i \in DOMAIN results :
                      IsScore(results[i].score, results[i].amat,
                              results[i].totalSize \div 1024, 20)

\* the larger cache was evaluated last and is returned first: its hit beats
\* its cost
C20_Witness ==
    /\ Ran /\ sweepOut.kind = "runOptimization"
    /\ sweepIn.lists.sizesKB = <<1, 4>>
    /\ Len(sweepOut.results) = 2
    /\ sweepOut.results[1].config.cacheSize = 4096
    /\ sweepOut.results[2].config.cacheSize = 1024
    /\ RatLess(sweepOut.results[2].score, sweepOut.results[1].score)

-----------------------------------------------------------------------------
(* Determinism *)

\* every sequence of values Math.random() can give during one replay
AllDraws == [1..Len(sweepIn.entries) -> {0, 1}]

\* the AccessResults of the trace replayed from entry j on
RECURSIVE replayResults(_, _, _, _)
replayResults(c, entries, draws, j) ==
    IF j > Len(entries) THEN << >>
    ELSE LET r == CacheSimulator_access(c, entries[j][2], entries[j][1],
                                        victimDraw(draws[j], c.config.associativity))
         IN  <<r.result>> \o replayResults(r.sim, entries, draws, j + 1)

\* the sweep that ran, run again while Math.random() gives draws
SweepAgain(draws) ==
    IF sweepOut.kind = "runMultiLevelOptimization"
    THEN runMultiLevelOptimization(sweepIn.entries, sweepIn.lists.sizesKB,
            sweepIn.lists.l2SizesKB, sweepIn.lists.associativities,
            sweepIn.lists.l2Associativities, sweepIn.lists.blockSizes,
            sweepIn.lists.l2BlockSizes, sweepIn.lists.replacementPolicies, draws)
    ELSE runSingleLevelOptimization(sweepIn.entries, sweepIn.lists.sizesKB,
            sweepIn.lists.associativities, sweepIn.lists.blockSizes,
            IF sweepOut.kind = "runOptimization" THEN <<"LRU">>
            ELSE sweepIn.lists.replacementPolicies, draws)

\* C21: under LRU, FIFO and LFU nothing depends on what Math.random() gives:
\* two runs of a trace on engines of one configuration give the same
\* AccessResults and the same final stats, two sweeps of the same inputs give
\* the same list in the same order with the same scores, and the stats of an
\* entry are those of an engine that ran the trace alone.
C21_Deterministic ==
    Ran /\ "RANDOM" \notin SweptPolicies =>
        \A draws \in AllDraws :
            /\ SweepAgain(draws) = sweepOut.results
            /\ RanSingleLevel =>
                  \A i \in DOMAIN sweepOut.results :
                      LET alone == CacheSimulator_new(sweepOut.results[i].config)
                      IN  /\ replayResults(alone, sweepIn.entries, draws, 1)
                                = replayResults(alone, sweepIn.entries, NoDraws, 1)
                          /\ replay(alone, sweepIn.entries, draws, 1).stats
                                = sweepOut.results[i].stats

\* an LRU sweep returned an entry for a two-way candidate whose one set the
\* trace filled and evicted from, so the policy chose between two ways
C21_Witness ==
    /\ Ran /\ sweepOut.kind = "runOptimization"
    /\ Len(sweepIn.entries) = 3
    /\ \E i \in DOMAIN sweepOut.results :
          LET config == sweepOut.results[i].config
              results == replayResults(CacheSimulator_new(config), sweepIn.entries, NoDraws, 1)
          IN  /\ config.associativity = 2
              /\ sweepOut.results[i].stats.misses = 3
              /\ results[3].evicted

\* C22: under RANDOM the victim way comes from an explicit seedable source
\* and lies in [0, associativity): nothing but the engine and the call decides
\* the outcome of an access, so two runs of the same inputs agree whatever
\* the process-wide Math.random() gives.
C22_SeededRandom ==
    sim # NoEngine =>
        \A call \in Calls, d1 \in Draws, d2 \in Draws :
            LET r1 == CacheSimulator_access(sim, call[2], call[1], d1)
                r2 == CacheSimulator_access(sim, call[2], call[1], d2)
            IN  /\ r1.result.wayIndex \in 0..(sim.config.associativity - 1)
                /\ r1 = r2

-----------------------------------------------------------------------------
(* ConfigComparison (src/src/components/simulator/MemoryVisualizer.tsx) *)

\* the panel holds at most MaxConfigs configurations
MaxConfigs == 2

\* results of a ComparisonConfig that was not run
NoResults == [amat |-> "none"]

\* the hit times runComparison charges
ComparisonL1HitTime == 1
ComparisonL2HitTime == 10

\* a ComparisonConfig as handleOpen and addConfig make it: no results
ComparisonConfig(id, l1, l2, enabled) ==
    [id |-> id, l1 |-> l1, l2 |-> l2, enabled |-> enabled, results |-> NoResults]

\* crypto.randomUUID(): an id no configuration of the list has
randomUUID(list) ==
    CHOOSE id \in 1..(Len(list) + 1) :
        /\ \A i \in DOMAIN list : list[i].id # id
        /\ \A other \in 1..(id - 1) : \E i \in DOMAIN list : list[i].id = other

\* the cycles runComparison adds for one entry of the trace
entryCycles(accessResult, config, memoryConfig) ==
    IF accessResult.l1Result # Undefined /\ accessResult.l1Result.hit
    THEN ComparisonL1HitTime
    ELSE IF accessResult.l2Result # Undefined /\ accessResult.l2Result.hit
    THEN ComparisonL1HitTime + ComparisonL2HitTime
    ELSE ComparisonL1HitTime + (IF config.enabled.l2 THEN ComparisonL2HitTime ELSE 0)
            + memoryConfig.latencyCycles

\* for (const entry of trace) { simulator.access(...); totalCycles += ... }
\* from entry j on; no configuration of the panel replaces at random
RECURSIVE replayEntries(_, _, _, _, _, _)

\* the body of the loop once simulator.access() has returned accessed
afterEntry(accessed, totalCycles, config, memoryConfig, entries, j) ==
    replayEntries(accessed.sim,
                  totalCycles + entryCycles(accessed.result, config, memoryConfig),
                  config, memoryConfig, entries, j + 1)

replayEntries(simulator, totalCycles, config, memoryConfig, entries, j) ==
    IF j > Len(entries) THEN [simulator |-> simulator, totalCycles |-> totalCycles]
    ELSE afterEntry(
            MultiLevelCacheSimulator_access(simulator, entries[j][2], entries[j][1], 0, 0),
            totalCycles, config, memoryConfig, entries, j)

\* simulator.getL1Stats() ?? { hits: 0, ... }
statsOrZero(level) == IF level # Null THEN getStats(level) ELSE ZeroStats

\* rateOf taking the misses for the hits
rateOf_Misses(stats) == IF stats.totalAccesses > 0 THEN Div(stats.misses, stats.totalAccesses) ELSE Zero

\* stats.totalAccesses > 0 ? stats.hits / stats.totalAccesses : 0
rateOf(stats) == IF stats.totalAccesses > 0 THEN Div(stats.hits, stats.totalAccesses) ELSE Zero

\* the results object built from the stats of the levels and the cycles
resultsOf(config, memoryConfig, l1Stats, l2Stats, totalCycles) ==
    LET l1HitRate == rateOf(l1Stats)
        l2HitRate == rateOf(l2Stats)
        l1MissRate == RatSub(Whole(1), l1HitRate)
        l2MissRate == RatSub(Whole(1), l2HitRate)
        combinedHitRate == IF config.enabled.l2
                           THEN RatAdd(l1HitRate, RatMul(l1MissRate, l2HitRate))
                           ELSE l1HitRate
        amat == IF config.enabled.l2
                THEN RatAdd(Whole(ComparisonL1HitTime),
                        RatMul(l1MissRate,
                            RatAdd(Whole(ComparisonL2HitTime),
                                RatMul(l2MissRate, Whole(memoryConfig.latencyCycles)))))
                ELSE RatAdd(Whole(ComparisonL1HitTime),
                        RatMul(l1MissRate, Whole(memoryConfig.latencyCycles)))
    IN  [l1Hits |-> l1Stats.hits,
         l1Misses |-> l1Stats.misses,
         l1HitRate |-> RatMul(l1HitRate, Whole(100)),
         l2Hits |-> l2Stats.hits,
         l2Misses |-> l2Stats.misses,
         l2HitRate |-> RatMul(l2HitRate, Whole(100)),
         combinedHitRate |-> RatMul(combinedHitRate, Whole(100)),
         amat |-> amat,
         totalCycles |-> totalCycles]

\* the results of a configuration whose replay ended in run
resultsOfRun(config, memoryConfig, run) ==
    resultsOf(config, memoryConfig, statsOrZero(run.simulator.l1),
              statsOrZero(run.simulator.l2), run.totalCycles)

\* the results runComparison stores for one configuration
comparisonResults(config, memoryConfig, entries) ==
    resultsOfRun(config, memoryConfig,
        replayEntries(
            MultiLevelCacheSimulator_new(
                [l1 |-> config.l1, l2 |-> config.l2, enabled |-> config.enabled],
                memoryConfig),
            0, config, memoryConfig, entries, 1))

\* configs.map(config => ({ ...config, results }))
runComparison(list, memoryConfig, entries) ==
    [i \in DOMAIN list |->
        [list[i] EXCEPT !.results = comparisonResults(list[i], memoryConfig, entries)]]

\* c replaces best in a reduce of bestMetrics, taking c on a tie as well
better_OrEqual(metric, c, best) ==
    IF metric = "combinedHitRate"
    THEN ~RatLess(c.results.combinedHitRate, best.results.combinedHitRate)
    ELSE IF metric = "amat"
    THEN ~RatLess(best.results.amat, c.results.amat)
    ELSE c.results.totalCycles <= best.results.totalCycles

\* c replaces best in a reduce of bestMetrics: x || 0 and x || Infinity take
\* the fallback when x is 0
better(metric, c, best) ==
    IF metric = "combinedHitRate"
    THEN RatLess(IF best.results.combinedHitRate.num = 0 THEN Zero
                 ELSE best.results.combinedHitRate,
                 c.results.combinedHitRate)
    ELSE IF metric = "amat"
    THEN IF best.results.amat.num = 0 THEN TRUE
         ELSE RatLess(c.results.amat, best.results.amat)
    ELSE c.results.totalCycles
            < (IF best.results.totalCycles = 0 THEN Infinity ELSE best.results.totalCycles)

\* list.reduce((best, c) => better ? c : best) from element j on
RECURSIVE reduce(_, _, _, _)
reduce(metric, list, best, j) ==
    IF j > Len(list) THEN best
    ELSE reduce(metric, list, IF better(metric, list[j], best) THEN list[j] ELSE best, j + 1)

\* useMemo(() => ..., [configs])
bestMetrics(list) ==
    LET configsWithResults == SelectSeq(list, LAMBDA c : c.results # NoResults)
    IN  IF Len(configsWithResults) = 0 THEN Null
        ELSE [bestHitRate |-> reduce("combinedHitRate", configsWithResults,
                                     configsWithResults[1], 2).id,
              bestAmat |-> reduce("amat", configsWithResults, configsWithResults[1], 2).id,
              bestCycles |-> reduce("totalCycles", configsWithResults,
                                    configsWithResults[1], 2).id]

(* The panel *)

\* the configurations of the form and of the store: both levels, one level,
\* no level
ComparisonSetups ==
    {MultiLevelCacheConfig(L1Small, L2Large, TRUE, TRUE),
     MultiLevelCacheConfig(L1Small, L2Wide, TRUE, FALSE),
     MultiLevelCacheConfig(L1Counting, L2Wide, FALSE, TRUE),
     MultiLevelCacheConfig(L1Small, L2Large, FALSE, FALSE)}

\* the traces of the store: none, one cold access, a repeated block, two blocks
\* of one L2Wide block, a block that L1Small evicts and L2Large keeps
ComparisonTraces ==
    {<< >>,
     <<<<FALSE, 0>>>>,
     <<<<FALSE, 0>>, <<TRUE, 0>>>>,
     <<<<TRUE, 0>>, <<FALSE, 16>>, <<FALSE, 32>>>>,
     <<<<FALSE, 0>>, <<FALSE, 0>>, <<FALSE, 32>>, <<FALSE, 0>>>>}

ComparisonMemories == {DefaultMemoryConfig, SRAMConfig}

InitCompare ==
    /\ configs = << >>
    /\ \E entries \in ComparisonTraces, memoryConfig \in ComparisonMemories :
          props = [trace |-> entries, memoryConfig |-> memoryConfig]
    /\ IdleCache
    /\ IdleHier
    /\ IdleSweep
    /\ IdleMemory
    /\ IdleTrace
    /\ IdleApp

\* handleOpen(true): the store's configuration becomes the first of the list
HandleOpen ==
    /\ Len(configs) = 0
    /\ \E current \in ComparisonSetups :
          configs' = <<ComparisonConfig(randomUUID(configs), current.l1, current.l2,
                                        current.enabled)>>
    /\ UNCHANGED <<props, otherThanCompare>>

\* addConfig(): the form's configuration is appended
AddConfig ==
    /\ Len(configs) < MaxConfigs
    /\ \E newConfig \in ComparisonSetups :
          configs' = Append(configs,
                        ComparisonConfig(randomUUID(configs), newConfig.l1, newConfig.l2,
                                         newConfig.enabled))
    /\ UNCHANGED <<props, otherThanCompare>>

\* removeConfig(id)
RemoveConfig ==
    /\ \E i \in DOMAIN configs :
          configs' = SelectSeq(configs, LAMBDA c : c.id # configs[i].id)
    /\ UNCHANGED <<props, otherThanCompare>>

\* runComparison(): returns at once on an empty trace
RunComparison ==
    /\ Len(props.trace) # 0
    /\ configs' = runComparison(configs, props.memoryConfig, props.trace)
    /\ UNCHANGED <<props, otherThanCompare>>

NextCompare ==
    \/ HandleOpen
    \/ AddConfig
    \/ RemoveConfig
    \/ RunComparison

SpecCompare == InitCompare /\ [][NextCompare]_vars

(* Comparison vocabulary *)

HasResults(c) == c.results # NoResults
WithResults == {i \in DOMAIN configs : HasResults(configs[i])}
Lowest(indices) == CHOOSE i \in indices : \A j \in indices : i <= j

\* the hierarchy runComparison builds for a configuration of the panel
HierarchyOf(c) ==
    MultiLevelCacheSimulator_new([l1 |-> c.l1, l2 |-> c.l2, enabled |-> c.enabled],
                                 props.memoryConfig)

\* the sum of the totalLatency the hierarchy reports for the entries from j on
RECURSIVE reportedLatency(_, _, _)
reportedLatency(h, entries, j) ==
    IF j > Len(entries) THEN 0
    ELSE LET a == MultiLevelCacheSimulator_access(h, entries[j][2], entries[j][1], 0, 0)
         IN  a.result.totalLatency + reportedLatency(a.sim, entries, j + 1)

\* C23: for every configuration that was run, the totalCycles of its results
\* is the sum, over the trace, of the totalLatency the hierarchy's access()
\* reported for each entry, burst-transfer cycles of memory accesses included,
\* whichever levels are enabled.
C23_TotalCyclesAsReported ==
    \A i \in WithResults :
        configs[i].results.totalCycles = reportedLatency(HierarchyOf(configs[i]), props.trace, 1)

\* C24: among the configurations with results, the winner for combined hit
\* rate has the maximum combined hit rate, the winner for AMAT the minimum
\* AMAT, the winner for total cycles the minimum total cycles, and of several
\* configurations tied on a metric the one with the lowest index wins; with no
\* configuration run there are no winners.
C24_Winners ==
    LET best == bestMetrics(configs)
        topRate == {i \in WithResults : \A j \in WithResults :
                        ~RatLess(configs[i].results.combinedHitRate,
                                 configs[j].results.combinedHitRate)}
        lowAmat == {i \in WithResults : \A j \in WithResults :
                        ~RatLess(configs[j].results.amat, configs[i].results.amat)}
        lowCycles == {i \in WithResults : \A j \in WithResults :
                        configs[i].results.totalCycles <= configs[j].results.totalCycles}
    IN  IF WithResults = {} THEN best = Null
        ELSE /\ best.bestHitRate = configs[Lowest(topRate)].id
             /\ best.bestAmat = configs[Lowest(lowAmat)].id
             /\ best.bestCycles = configs[Lowest(lowCycles)].id

\* two configurations run on a trace that never hits: they tie on a combined
\* hit rate of 0, the first wins it, and the second wins the total cycles
C24_Witness ==
    /\ Len(configs) = 2
    /\ WithResults = {1, 2}
    /\ configs[1].results.combinedHitRate = Zero
    /\ configs[2].results.combinedHitRate = Zero
    /\ bestMetrics(configs).bestHitRate = configs[1].id
    /\ bestMetrics(configs).bestCycles = configs[2].id

-----------------------------------------------------------------------------
(* C25, C27, C29, C30: one access of a CacheSimulator, specification Spec *)

InvalidWays(blocks) == {j \in Ways(blocks) : ~blocks[j].valid}

\* C25: a miss in a set with an invalid way installs the block in the
\* lowest-index invalid way whatever the policy and the draw, changes no valid
\* block, and reports evicted = false without an evictedTag; a miss reports
\* evicted = true exactly when every way of the set was valid, and then
\* evictedTag is the tag the replaced way held.
C25_FreeWayFirst ==
    \A call \in AllCalls, random \in Draws :
        LET r == CacheSimulator_access(sim, call[2], call[1], random)
            setIndex == extractIndex(sim, call[2])
            blocks == sim.sets[setIndex]
            free == InvalidWays(blocks)
        IN  ~r.result.hit =>
                /\ free # {} =>
                      /\ r.result.wayIndex \in free
                      /\ \A j \in free : r.result.wayIndex <= j
                      /\ \A j \in Ways(blocks) \ free : r.sim.sets[setIndex][j] = blocks[j]
                      /\ ~r.result.evicted
                      /\ "evictedTag" \notin DOMAIN r.result
                /\ r.result.evicted <=> free = {}
                /\ r.result.evicted =>
                      r.result.evictedTag = blocks[r.result.wayIndex].tag

\* under RANDOM a miss went to way 1 of a set whose way 0 held another block
C25_Witness ==
    /\ Accessed /\ ~result.hit /\ ~result.evicted
    /\ result.wayIndex = 1
    /\ sim.sets[result.setIndex][0].valid
    /\ sim.sets[result.setIndex][0].tag # result.tag
    /\ sim.config.replacementPolicy = "RANDOM"

\* the <<set, way>> pairs whose block differs between two engines
ChangedBlocks(before, after) ==
    {<<i, j>> \in UNION {{<<i, j>> : j \in Ways(before.sets[i])} : i \in DOMAIN before.sets} :
        after.sets[i][j] # before.sets[i][j]}

C29_HitUpdatesByPolicy ==
    \A call \in AllCalls, random \in Draws :
        LET r == CacheSimulator_access(sim, call[2], call[1], random)
            policy == sim.config.replacementPolicy
            old == sim.sets[r.result.setIndex][r.result.wayIndex]
            new == r.sim.sets[r.result.setIndex][r.result.wayIndex]
        IN  r.result.hit =>
                /\ policy = "FIFO" =>
                      \A i \in DOMAIN sim.sets : \A j \in Ways(sim.sets[i]) :
                          /\ r.sim.sets[i][j].lastAccessTime = sim.sets[i][j].lastAccessTime
                          /\ r.sim.sets[i][j].insertionTime = sim.sets[i][j].insertionTime
                /\ policy = "RANDOM" =>
                      [new EXCEPT !.dirty = old.dirty] = old
                /\ policy \notin {"LRU", "LFU"} => new.lastAccessTime = old.lastAccessTime
                /\ policy # "LFU" => new.accessCount = old.accessCount

-----------------------------------------------------------------------------
(* C26, C28: counters and frame of a MultiLevelCacheSimulator, specification SpecHier *)

\* the step replaced a valid dirty block of the level
WroteBackL1(s) == EnabledL1(s) /\ s.after.l1.stats.writebacks > s.before.l1.stats.writebacks
WroteBackL2(s) == EnabledL2(s) /\ s.after.l2.stats.writebacks > s.before.l2.stats.writebacks

\* the memory accesses and memory writes one step adds
MemoryAccessesAdded(s) ==
    s.after.memory.stats.totalAccesses - s.before.memory.stats.totalAccesses
MemoryWritesAdded(s) ==
    s.after.memory.stats.totalWrites - s.before.memory.stats.totalWrites

\* C26: with both levels enabled L1.totalAccesses = combined.totalAccesses,
\* L2.totalAccesses = L1.misses, combined.hits = L1.hits + L2.hits and
\* combined.misses = L2.misses = the memory's totalAccesses =
\* getMemoryAccesses(); with one level enabled the combined hits and misses
\* are that level's and combined.misses is the memory access count; a step
\* that evicts a dirty block accesses L2 and memory no more than the lookup
\* of the missed address does, and writes nothing to memory on a read.
C26_CounterIdentities ==
    LET c == hier.combinedStats
        accesses == hier.memory.stats.totalAccesses
    IN  /\ accesses = hier.memoryAccesses
        /\ c.misses = accesses
        /\ (hier.l1 # Null /\ hier.l2 # Null) =>
              /\ hier.l1.stats.totalAccesses = c.totalAccesses
              /\ hier.l2.stats.totalAccesses = hier.l1.stats.misses
              /\ c.hits = hier.l1.stats.hits + hier.l2.stats.hits
              /\ c.misses = hier.l2.stats.misses
        /\ (hier.l1 # Null /\ hier.l2 = Null) =>
              (c.hits = hier.l1.stats.hits /\ c.misses = hier.l1.stats.misses)
        /\ (hier.l1 = Null /\ hier.l2 # Null) =>
              (c.hits = hier.l2.stats.hits /\ c.misses = hier.l2.stats.misses)
        /\ \A s \in HierarchySteps :
              (WroteBackL1(s) \/ WroteBackL2(s)) =>
                  /\ MemoryAccessesAdded(s) = (IF HitL2(s) THEN 0 ELSE 1)
                  /\ MemoryWritesAdded(s) = (IF ~HitL2(s) /\ s.call[1] THEN 1 ELSE 0)
                  /\ s.after.memoryAccesses = s.before.memoryAccesses + MemoryAccessesAdded(s)
                  /\ (EnabledL1(s) /\ EnabledL2(s)) =>
                        s.after.l2.stats.totalAccesses = s.before.l2.stats.totalAccesses + 1

\* W 0x00, R 0x20, R 0x00 with both levels: L1 wrote back the dirty block of
\* 0x00, the third access hit in L2, and memory was accessed twice
C26_Witness ==
    /\ hier.l1 # Null /\ hier.l2 # Null
    /\ hcalls = 3
    /\ hier.l1.stats.writebacks = 1
    /\ hier.l2.stats.hits = 1
    /\ hier.memoryAccesses = 2
    /\ hier.memory.stats.totalWrites = 1

\* the level holds the block of the address of the call after the step
HoldsAfter(level, call) ==
    \E j \in Ways(level.sets[extractIndex(level, call[2])]) :
        /\ level.sets[extractIndex(level, call[2])][j].valid
        /\ level.sets[extractIndex(level, call[2])][j].tag = extractTag(level, call[2])

\* C28: an access that hits in L1 leaves L2 (sets, stats, clock) and the main
\* memory (stats, regions, history) and the memory access count unchanged; an
\* access that misses L1 and hits in L2 leaves the main memory and the memory
\* access count unchanged and has installed the block in L1.
C28_HitsLeaveLowerLevels ==
    \A s \in HierarchySteps :
        /\ HitL1(s) =>
              /\ s.after.l2 = s.before.l2
              /\ s.after.memory = s.before.memory
              /\ s.after.memoryAccesses = s.before.memoryAccesses
        /\ (MissedL1(s) /\ HitL2(s)) =>
              /\ s.after.memory = s.before.memory
              /\ s.after.memoryAccesses = s.before.memoryAccesses
              /\ ~HoldsAfter(s.before.l1, s.call)
              /\ HoldsAfter(s.after.l1, s.call)
              /\ ~s.result.l1Result.hit
              /\ ChangedBlocks(s.before.l1, s.after.l1)
                    = {<<s.result.l1Result.setIndex, s.result.l1Result.wayIndex>>}

\* the last access missed L1 and hit in L2 after memory was accessed twice,
\* and L1 holds the block
C28_Witness ==
    /\ hier.l1 # Null /\ hier.l2 # Null
    /\ hop.kind = "access"
    /\ hresult.dataPath = <<"L1", "L2">>
    /\ hresult.l2Result.hit
    /\ HoldsAfter(hier.l1, hop.call)
    /\ hier.l1.stats.hits = 0
    /\ hier.memory.stats.totalAccesses = 2

-----------------------------------------------------------------------------
(* C31, C32: timestamps and address fields of a CacheSimulator, specification Spec *)

\* the <<set, way>> pairs of the valid blocks of the cache
ValidBlocks ==
    {p \in UNION {{<<i, j>> : j \in Ways(sim.sets[i])} : i \in DOMAIN sim.sets} :
        sim.sets[p[1]][p[2]].valid}

BlockAt(p) == sim.sets[p[1]][p[2]]

\* C31: every valid block has 1 <= insertionTime <= lastAccessTime <= the
\* access counter and accessCount >= 1; two distinct valid blocks of the cache
\* differ in insertionTime and in lastAccessTime; so in a full set exactly one
\* way has the least lastAccessTime and exactly one the least insertionTime.
C31_Timestamps ==
    /\ \A p \in ValidBlocks :
          /\ 1 <= BlockAt(p).insertionTime
          /\ BlockAt(p).insertionTime <= BlockAt(p).lastAccessTime
          /\ BlockAt(p).lastAccessTime <= sim.accessTime
          /\ BlockAt(p).accessCount >= 1
    /\ \A p \in ValidBlocks, q \in ValidBlocks :
          p # q =>
              /\ BlockAt(p).insertionTime # BlockAt(q).insertionTime
              /\ BlockAt(p).lastAccessTime # BlockAt(q).lastAccessTime
    /\ \A i \in DOMAIN sim.sets :
          AllValid(sim.sets[i]) =>
              /\ Cardinality({j \in Ways(sim.sets[i]) : \A k \in Ways(sim.sets[i]) :
                    sim.sets[i][j].lastAccessTime <= sim.sets[i][k].lastAccessTime}) = 1
              /\ Cardinality({j \in Ways(sim.sets[i]) : \A k \in Ways(sim.sets[i]) :
                    sim.sets[i][j].insertionTime <= sim.sets[i][k].insertionTime}) = 1

\* a full 2-way set after a hit on the block installed first: its
\* lastAccessTime passed that of the other way
C31_Witness ==
    /\ Accessed /\ result.hit
    /\ sim.config.associativity = 2
    /\ AllValid(sim.sets[result.setIndex])
    /\ \E j \in Ways(sim.sets[result.setIndex]) :
          /\ j # result.wayIndex
          /\ sim.sets[result.setIndex][j].insertionTime
                > sim.sets[result.setIndex][result.wayIndex].insertionTime
          /\ sim.sets[result.setIndex][j].lastAccessTime
                < sim.sets[result.setIndex][result.wayIndex].lastAccessTime

(* Accesses over the whole 32-bit address range *)

\* 0x0, 0x4, 0x14, 0x40, 0x7FFFFFFF, 0x80000000, 0x80000004, 0x80000040,
\* 0xFFFFFFFF
WideAddresses ==
    {Uint32(0, 0), Uint32(0, 4), Uint32(0, 20), Uint32(0, 64), Uint32(0, 2147483647),
     Uint32(1, 0), Uint32(1, 4), Uint32(1, 64), Uint32(1, 2147483647)}

\* valid geometries: 4 B blocks, one set, four sets, sixteen sets of 64 B blocks
WideConfigs ==
    {CacheConfig(16, 4, 1, "LRU", "write-back"),
     CacheConfig(32, 16, 2, "LRU", "write-back"),
     CacheConfig(128, 16, 2, "FIFO", "write-back"),
     CacheConfig(4096, 64, 4, "LRU", "write-through")}

InitWide ==
    /\ candidate \in WideConfigs
    /\ sim = CacheSimulator_new(candidate)
    /\ fresh = sim
    /\ result = NoResult
    /\ freshResult = NoResult
    /\ op = [kind |-> "new"]
    /\ trace = NoCalls
    /\ accessCalls = 0
    /\ dirtyEvicted = 0
    /\ snapshot = NoStats
    /\ IdleHier
    /\ IdleSweep
    /\ IdleCompare
    /\ IdleMemory
    /\ IdleTrace
    /\ IdleApp

\* access(address, false) on any 32-bit address
AccessWide ==
    /\ accessCalls < MaxAccesses
    /\ \E address \in WideAddresses :
          LET r == CacheSimulator_access(sim, address, FALSE, 0)
          IN  /\ sim' = r.sim
              /\ result' = r.result
              /\ op' = [kind |-> "access", address |-> address]
    /\ accessCalls' = accessCalls + 1
    /\ UNCHANGED <<fresh, freshResult, trace, dirtyEvicted, candidate, snapshot,
                   otherThanCache>>

SpecWide == InitWide /\ [][AccessWide]_vars

\* the low 31 bits and the top bit of a 32-bit pattern
Low31(x) == IF x >= 0 THEN x ELSE (x + 2147483647) + 1
Top(x) == IF x >= 0 THEN 0 ELSE 1

\* C32: for a valid geometry and every 32-bit address a, index is
\* (a >>> offsetBits) AND (numSets - 1) and tag is a >>> (offsetBits +
\* indexBits) with zeros shifted in; with offset = a AND (blockSize - 1) the
\* three recompose to a; the setIndex an access returns is that index, in
\* [0, numSets) and 0 when there is one set, and its wayIndex is in
\* [0, associativity); two addresses have the same tag and index exactly
\* when they lie in the same block.
C32_AddressFields ==
    LET blockSize == sim.config.blockSize
        numSets == SetCount(sim.config)
        high == 2 ^ (31 - sim.offsetBits - sim.indexBits)
        offset(a) == Low31(a) % blockSize
        block(a) == <<Top(a), Low31(a) \div blockSize>>
    IN  /\ ValidGeometry(sim.config)
        /\ blockSize = 2 ^ sim.offsetBits
        /\ numSets = 2 ^ sim.indexBits
        /\ \A a \in WideAddresses :
              LET tag == extractTag(sim, a)
                  index == extractIndex(sim, a)
                  r == CacheSimulator_access(sim, a, FALSE, 0).result
              IN  /\ index = (Low31(a) \div blockSize) % numSets
                  /\ index \in 0..(numSets - 1)
                  /\ numSets = 1 => index = 0
                  /\ tag \in 0..(2 * high - 1)
                  /\ tag >= high <=> Top(a) = 1
                  /\ (tag - Top(a) * high) * blockSize * numSets + index * blockSize + offset(a)
                        = Low31(a)
                  /\ r.setIndex = index
                  /\ r.tag = tag
                  /\ r.wayIndex \in 0..(sim.config.associativity - 1)
                  /\ \A b \in WideAddresses :
                        (extractTag(sim, b) = tag /\ extractIndex(sim, b) = index)
                            <=> block(b) = block(a)

\* 0x80000040 hit in a set other than set 0 whose other block differs only
\* in the top bit of the address
C32_Witness ==
    /\ Accessed /\ result.hit
    /\ op.address = Uint32(1, 64)
    /\ result.setIndex > 0
    /\ result.tag = extractTag(sim, Uint32(0, 64)) + 2 ^ (31 - sim.offsetBits - sim.indexBits)
    /\ ValidWaysWithTag(sim.sets[result.setIndex], extractTag(sim, Uint32(0, 64))) # {}

-----------------------------------------------------------------------------
(* A MainMemory on its own *)

\* the memory after n >= 1 calls access(0, false, 64) on a new MainMemory
filledMemory(config, n, res) ==
    LET effective == RatMul(Div(n * res.bytesTransferred, n), Whole(config.frequencyMHz))
        peak == calculatePeakBandwidth(config)
    IN  [config |-> config,
         totalCycles |-> n,
         minAddressSeen |-> 0,
         maxAddressSeen |-> 0,
         dynamicRegionSize |-> 1,
         stats |-> [totalReads |-> n, totalWrites |-> 0, totalAccesses |-> n,
                    bytesTransferred |-> n * res.bytesTransferred,
                    averageLatency |-> Whole(res.latencyCycles),
                    bandwidthUtilization |-> RatMul(RatDiv(effective, peak), Whole(100)),
                    peakBandwidthMBps |-> peak,
                    effectiveBandwidthMBps |-> effective],
         regions |-> [i \in 0..(RegionCount - 1) |->
                        [startAddress |-> i, endAddress |-> i,
                         accessCount |-> IF i = 0 THEN n ELSE 0,
                         readCount |-> IF i = 0 THEN n ELSE 0,
                         writeCount |-> 0,
                         lastAccessTime |-> IF i = 0 THEN n ELSE 0]],
         accessHistory |-> [k \in 1..Min(n, HistoryLimit) |-> res]]

\* a MainMemory after n calls access(0, false, 64)
Filled(config, n) ==
    IF n = 0 THEN MainMemory_new(config)
    ELSE filledMemory(config, n, MainMemory_access(MainMemory_new(config), 0, FALSE, 64).result)

MemoryConfigs == {DefaultMemoryConfig, SRAMConfig}

\* <<isWrite, address, blockSize>>: 0x100064 is 100 past 1 MiB
MemoryCalls ==
    {<<FALSE, 0, 64>>, <<TRUE, 100, 16>>, <<FALSE, 1600, 64>>, <<TRUE, 1048676, 64>>,
     <<FALSE, 15, 16>>}

\* a new memory, or one whose history is one entry short of its capacity
InitMemory ==
    /\ \E config \in MemoryConfigs :
          memory \in {MainMemory_new(config), Filled(config, HistoryLimit - 1)}
    /\ mresult = NoResult
    /\ mop = [kind |-> "new"]
    /\ mcalls = 0
    /\ IdleCache
    /\ IdleHier
    /\ IdleSweep
    /\ IdleCompare
    /\ IdleTrace
    /\ IdleApp

MemoryAccess ==
    /\ mcalls < MaxAccesses
    /\ \E call \in MemoryCalls :
          LET r == MainMemory_access(memory, call[2], call[1], call[3])
          IN  /\ memory' = r.memory
              /\ mresult' = r.result
              /\ mop' = [kind |-> "access", call |-> call]
    /\ mcalls' = mcalls + 1
    /\ UNCHANGED otherThanMemory

MemoryReset ==
    /\ memory' = MainMemory_reset(memory)
    /\ mresult' = NoResult
    /\ mop' = [kind |-> "reset"]
    /\ mcalls' = 0
    /\ UNCHANGED otherThanMemory

NextMemory == MemoryAccess \/ MemoryReset

SpecMemory == InitMemory /\ [][NextMemory]_vars

(* Memory vocabulary *)

MemoryStep(call) ==
    LET r == MainMemory_access(memory, call[2], call[1], call[3])
    IN  [call |-> call, before |-> memory, after |-> r.memory, result |-> r.result]

MemorySteps == {MemoryStep(call) : call \in MemoryCalls}

Regions == 0..(RegionCount - 1)

\* f[lo] + ... + f[hi], halving the range
RECURSIVE SumOver(_, _, _)
SumOver(f, lo, hi) ==
    IF lo > hi THEN 0
    ELSE IF lo = hi THEN f[lo]
    ELSE LET mid == (lo + hi) \div 2
         IN  SumOver(f, lo, mid) + SumOver(f, mid + 1, hi)

\* the counters of a region without its boundaries
Counters(region) ==
    <<region.accessCount, region.readCount, region.writeCount, region.lastAccessTime>>

\* the addresses recorded in the history, which is whole up to its capacity
Recorded(m) == {m.accessHistory[k].address : k \in DOMAIN m.accessHistory}

\* C33: after every MainMemory.access(address, ...) the recorded address is
\* address mod the memory size; the 16 regions are contiguous and of equal
\* size ceil((max - min + 1) / 16), start at the least address seen and cover
\* up to the greatest; the returned regionIndex is in 0..15 and that region
\* contains the wrapped address; exactly that region has accessCount and its
\* read or write counter incremented and lastAccessTime set to the memory's
\* access counter.
C33_Regions ==
    \A s \in MemorySteps :
        LET m == s.after
            wrapped == s.result.address
            size == m.dynamicRegionSize
            range == m.maxAddressSeen - m.minAddressSeen + 1
            hit == s.result.regionIndex
        IN  /\ wrapped \in 0..(m.config.sizeMB * 1024 * 1024 - 1)
            /\ (s.call[2] - wrapped) % (m.config.sizeMB * 1024 * 1024) = 0
            /\ m.accessHistory[Len(m.accessHistory)].address = wrapped
            /\ m.stats.totalAccesses <= HistoryLimit =>
                  /\ m.minAddressSeen \in Recorded(m)
                  /\ m.maxAddressSeen \in Recorded(m)
                  /\ \A a \in Recorded(m) : m.minAddressSeen <= a /\ a <= m.maxAddressSeen
            /\ m.minAddressSeen <= wrapped /\ wrapped <= m.maxAddressSeen
            /\ size * RegionCount >= range
            /\ (size - 1) * RegionCount < range
            /\ m.regions[0].startAddress = m.minAddressSeen
            /\ \A i \in Regions :
                  /\ m.regions[i].endAddress = m.regions[i].startAddress + size - 1
                  /\ i > 0 => m.regions[i].startAddress = m.regions[i - 1].endAddress + 1
            /\ m.regions[RegionCount - 1].endAddress >= m.maxAddressSeen
            /\ hit \in Regions
            /\ m.regions[hit].startAddress <= wrapped
            /\ wrapped <= m.regions[hit].endAddress
            /\ m.totalCycles = s.before.totalCycles + 1
            /\ Counters(m.regions[hit]) =
                  <<s.before.regions[hit].accessCount + 1,
                    s.before.regions[hit].readCount + (IF s.call[1] THEN 0 ELSE 1),
                    s.before.regions[hit].writeCount + (IF s.call[1] THEN 1 ELSE 0),
                    m.totalCycles>>
            /\ \A i \in Regions \ {hit} :
                  Counters(m.regions[i]) = Counters(s.before.regions[i])

\* the write to 0x100064 on the 1 MiB memory was recorded as 100, in the
\* fifteenth of the regions of size 6 that start at 15
C33_Witness ==
    /\ mop.kind = "access"
    /\ mop.call[2] = 1048676
    /\ mresult.address = 100
    /\ mresult.regionIndex = 14
    /\ memory.minAddressSeen = 15
    /\ memory.maxAddressSeen = 100
    /\ memory.dynamicRegionSize = 6

\* C34: totalReads + totalWrites = totalAccesses; the regions' accessCount,
\* readCount and writeCount add up to totalAccesses, totalReads and
\* totalWrites, and readCount + writeCount = accessCount in each region;
\* bytesTransferred is the sum of the transfer sizes of the accesses; the
\* history holds the last min(totalAccesses, 1000) results, the oldest
\* dropped first.
C34_MemoryCounters ==
    LET st == memory.stats
        history == memory.accessHistory
    IN  /\ st.totalReads + st.totalWrites = st.totalAccesses
        /\ SumOver([i \in Regions |-> memory.regions[i].accessCount], 0, RegionCount - 1) = st.totalAccesses
        /\ SumOver([i \in Regions |-> memory.regions[i].readCount], 0, RegionCount - 1) = st.totalReads
        /\ SumOver([i \in Regions |-> memory.regions[i].writeCount], 0, RegionCount - 1) = st.totalWrites
        /\ \A i \in Regions :
              memory.regions[i].readCount + memory.regions[i].writeCount
                  = memory.regions[i].accessCount
        /\ Len(history) = Min(st.totalAccesses, HistoryLimit)
        /\ st.totalAccesses <= HistoryLimit =>
              SumOver([k \in DOMAIN history |-> history[k].bytesTransferred], 1, Len(history))
                  = st.bytesTransferred
        /\ \A s \in MemorySteps :
              /\ s.after.stats.bytesTransferred = st.bytesTransferred + s.result.bytesTransferred
              /\ s.result.bytesTransferred =
                    Max(s.call[3], (memory.config.busWidthBits \div 8) * memory.config.burstLength)
              /\ s.after.accessHistory =
                    IF Len(history) < HistoryLimit THEN Append(history, s.result)
                    ELSE Append(Tail(history), s.result)
        /\ mop.kind = "new" =>
              \A n \in 0..(HistoryLimit + 1) :
                  MainMemory_access(Filled(memory.config, n), 0, FALSE, 64).memory
                      = Filled(memory.config, n + 1)

\* 1001 accesses were made: the history holds 1000, the last one last, and
\* the first of the 999 reads of address 0 is gone
C34_Witness ==
    /\ mop.kind = "access"
    /\ memory.stats.totalAccesses = HistoryLimit + 1
    /\ Len(memory.accessHistory) = HistoryLimit
    /\ memory.accessHistory[HistoryLimit] = mresult
    /\ mresult.address = 100
    /\ memory.accessHistory[HistoryLimit - 1].address = 1600
    /\ memory.accessHistory[1].address = 0
    /\ memory.stats.totalWrites = 1

-----------------------------------------------------------------------------
(* C35: the combined hit rate of a comparison, specification SpecCompare *)

\* the hierarchy after access() was called for the entries from j on
RECURSIVE hierarchyAfter(_, _, _)
hierarchyAfter(h, entries, j) ==
    IF j > Len(entries) THEN h
    ELSE hierarchyAfter(
            MultiLevelCacheSimulator_access(h, entries[j][2], entries[j][1], 0, 0).sim,
            entries, j + 1)

\* combined hits / trace length of the run of c, as a percentage
OwnCombinedHitRate(c) ==
    RatMul(Div(hierarchyAfter(HierarchyOf(c), props.trace, 1).combinedStats.hits,
               Len(props.trace)),
           Whole(100))

\* C35: for every configuration that was run, the combined hit rate computed
\* by inclusion-exclusion from the hit rates of the levels equals the
\* hierarchy's combined hits over the trace length, whichever levels are
\* enabled.
C35_CombinedHitRate ==
    \A i \in WithResults :
        configs[i].results.combinedHitRate = OwnCombinedHitRate(configs[i])

\* both levels ran a trace with one hit in L1 and one in L2 out of four
\* accesses: L1 hit 25%, L2 hit a third of the three it saw, 50% combined
C35_Witness ==
    \E i \in WithResults :
        /\ configs[i].enabled.l1 /\ configs[i].enabled.l2
        /\ configs[i].results.l1Hits = 1
        /\ configs[i].results.l2Hits = 1
        /\ configs[i].results.l2Misses = 2
        /\ configs[i].results.l1HitRate = Whole(25)
        /\ configs[i].results.combinedHitRate = Whole(50)

-----------------------------------------------------------------------------
(* Trace generators *)

\* const defaultCacheAwareConfig
defaultCacheAwareConfig ==
    [l1CacheSize |-> 32 * 1024, l1BlockSize |-> 64, l1Associativity |-> 4,
     l2CacheSize |-> 256 * 1024, l2BlockSize |-> 64, l2Associativity |-> 8]

\* { ...defaultCacheAwareConfig, ...config }: the fields config gives override
\* the defaults; << >> is the argument left out
getEffectiveConfig(config) ==
    [f \in DOMAIN defaultCacheAwareConfig |->
        IF f \in DOMAIN config THEN config[f] ELSE defaultCacheAwareConfig[f]]

StressLevels == {"light", "moderate", "heavy", "extreme"}

\* const stressMultipliers, the ratios as fractions
stressMultipliers ==
    [light |-> [workingSetMultiplier |-> Div(1, 2), hotSetRatio |-> Div(7, 10),
                coldSetRatio |-> Div(3, 10), itemMultiplier |-> 2],
     moderate |-> [workingSetMultiplier |-> Div(3, 2), hotSetRatio |-> Div(4, 10),
                   coldSetRatio |-> Whole(1), itemMultiplier |-> 5],
     heavy |-> [workingSetMultiplier |-> Whole(3), hotSetRatio |-> Div(3, 10),
                coldSetRatio |-> Whole(2), itemMultiplier |-> 15],
     extreme |-> [workingSetMultiplier |-> Whole(8), hotSetRatio |-> Div(2, 10),
                  coldSetRatio |-> Whole(5), itemMultiplier |-> 50]]

\* TraceGenerationOptions; targetWorkingSetKB = 0 is the option left out
TraceGenerationOptions(stressLevel, targetWorkingSetKB, enableL2Pressure) ==
    [stressLevel |-> stressLevel, targetWorkingSetKB |-> targetWorkingSetKB,
     enableL2Pressure |-> enableL2Pressure]

\* Math.floor of a non-negative fraction
Floor(x) == x.num \div x.den

\* getStressAwareSizes(config, options). The products are exact here and
\* floating point in the source; for the sizes of TraceHints, powers of two,
\* no product is within rounding distance of an integer it does not equal.
getStressAwareSizes(config, options) ==
    LET stress == stressMultipliers[options.stressLevel]
    IN  IF options.targetWorkingSetKB # 0
        THEN LET workingSetBytes == Whole(options.targetWorkingSetKB * 1024)
             IN  [workingSetBytes |-> Floor(workingSetBytes),
                  hotSetBytes |-> Floor(RatMul(workingSetBytes, stress.hotSetRatio)),
                  coldSetBytes |-> Floor(RatMul(workingSetBytes, stress.coldSetRatio)),
                  numItems |-> Floor(RatMul(RatDiv(workingSetBytes, Whole(config.l1BlockSize)),
                                            Whole(2)))]
        ELSE LET workingSetBytes ==
                     IF options.enableL2Pressure
                     THEN RatMul(RatMul(Whole(config.l2CacheSize),
                                        stress.workingSetMultiplier), Div(1, 2))
                     ELSE RatMul(Whole(config.l1CacheSize), stress.workingSetMultiplier)
             IN  [workingSetBytes |-> Floor(workingSetBytes),
                  hotSetBytes |-> Floor(RatMul(workingSetBytes, stress.hotSetRatio)),
                  coldSetBytes |-> Floor(RatMul(workingSetBytes, stress.coldSetRatio)),
                  numItems |-> Floor(RatMul(Div(config.l1CacheSize, config.l1BlockSize),
                                            Whole(stress.itemMultiplier)))]

\* Array.from({ length }, (_, i) => first + i * blockSize)
addressesFrom(first, length, blockSize) == [i \in 1..length |-> first + (i - 1) * blockSize]

\* const COLD_OFFSET: the 0x100000 the cold addresses start at above the base
ColdOffset == 1024 * 1024

\* the hot and the cold addresses of generateTemporalLocalityTrace
hotAddresses(baseAddress, hotCount, config, sizes) ==
    addressesFrom(baseAddress,
                  Max(hotCount, sizes.hotSetBytes \div config.l1BlockSize),
                  config.l1BlockSize)

coldAddresses(baseAddress, coldCount, config, sizes) ==
    addressesFrom(baseAddress + ColdOffset,
                  Max(coldCount, sizes.coldSetBytes \div config.l1BlockSize),
                  config.l1BlockSize)

\* Math.max(1, 5 - Math.floor(j / Math.max(1, length / 5))) for the hot address
\* of index j, counted from 0
repeatCount(j, length) ==
    Max(1, 5 - (IF length >= 5 THEN (5 * j) \div length ELSE j))

\* the reads of the hot addresses from index j (counted from 1) on, each
\* repeated repeatCount times
RECURSIVE hotReads(_, _)
hotReads(hot, j) ==
    IF j > Len(hot) THEN << >>
    ELSE [r \in 1..repeatCount(j - 1, Len(hot)) |-> <<FALSE, hot[j]>>] \o hotReads(hot, j + 1)

\* one read of each cold address
coldReads(cold) == [k \in 1..Len(cold) |-> <<FALSE, cold[k]>>]

\* the entries of iterations rounds of hot reads followed by the cold scan
RECURSIVE rounds(_, _, _)
rounds(hot, cold, iterations) ==
    IF iterations <= 0 THEN << >>
    ELSE hotReads(hot, 1) \o coldReads(cold) \o rounds(hot, cold, iterations - 1)

generateTemporalLocalityTrace(baseAddress, hotCount, coldCount, iterations, cacheConfig, options) ==
    LET config == getEffectiveConfig(cacheConfig)
        sizes == getStressAwareSizes(config, options)
    IN  rounds(hotAddresses(baseAddress, hotCount, config, sizes),
               coldAddresses(baseAddress, coldCount, config, sizes),
               iterations)

\* const BIG_STRIDE
BIG_STRIDE == 1024 * 1024

minTargetAssoc(stressLevel) ==
    CASE stressLevel = "light" -> 2
      [] stressLevel = "moderate" -> 4
      [] stressLevel = "heavy" -> 8
      [] OTHER -> 16

effectiveAssoc(config, options) ==
    Max(config.l1Associativity, minTargetAssoc(options.stressLevel))

extraBlocks(config, options) ==
    CASE options.stressLevel = "light" -> 1
      [] options.stressLevel = "moderate" -> 2
      [] options.stressLevel = "heavy" -> 4
      [] OTHER -> effectiveAssoc(config, options)

blocksPerSet(config, options) == effectiveAssoc(config, options) + extraBlocks(config, options)

\* the address of block blockInSet with the blocks half of BIG_STRIDE apart
strideAddress_HalfStride(baseAddress, blockInSet) ==
    baseAddress + blockInSet * (BIG_STRIDE \div 2)

\* baseAddress + blockInSet * BIG_STRIDE
strideAddress(baseAddress, blockInSet) == baseAddress + blockInSet * BIG_STRIDE

\* setCount is not read
generateLRUKillerTrace(baseAddress, setCount, count, cacheConfig, options) ==
    LET config == getEffectiveConfig(cacheConfig)
    IN  [i \in 1..count |->
            <<FALSE, strideAddress(baseAddress, (i - 1) % blocksPerSet(config, options))>>]

-----------------------------------------------------------------------------
(* The generators applied to drawn arguments, and their traces replayed *)

\* base addresses: 0, an address inside a block, the simulator's default base
TraceBases == {0, 4100, 65536}

\* hints: none, one field, a small L1 and L2, a large L1 of one block
TraceHints ==
    {<< >>,
     [l1Associativity |-> 16],
     [l1CacheSize |-> 64, l1BlockSize |-> 16, l1Associativity |-> 1, l2CacheSize |-> 256],
     [l1CacheSize |-> 65536, l1BlockSize |-> 65536, l1Associativity |-> 1]}

\* the hints under which the temporal trace stays short
SmallHints == {hint \in TraceHints : "l1CacheSize" \in DOMAIN hint}

TraceOptions ==
    {TraceGenerationOptions(level, 0, FALSE) : level \in StressLevels}
        \cup {TraceGenerationOptions("light", 1, FALSE),
              TraceGenerationOptions("light", 0, TRUE)}

KillerCounts == {1, 7, 70}
HotColdCounts == {<<1, 1>>, <<3, 2>>, <<17, 1>>}
Iterations == {1, 2}

\* the caches a trace is replayed on
ReplayConfigs ==
    {CacheConfig(32, 16, 1, "LRU", "write-back"),
     CacheConfig(64, 16, 2, "FIFO", "write-back"),
     CacheConfig(64, 16, 4, "LRU", "write-back"),
     CacheConfig(256, 16, 4, "FIFO", "write-through"),
     CacheConfig(128, 16, 8, "LRU", "write-back"),
     CacheConfig(64, 16, 2, "LFU", "write-back")}

\* the arguments the generators share are drawn, no generator has run
InitTrace ==
    /\ \E baseAddress \in TraceBases, cacheConfig \in TraceHints, options \in TraceOptions :
          gen = [kind |-> "none", baseAddress |-> baseAddress,
                 cacheConfig |-> cacheConfig, options |-> options]
    /\ ran = NoEngine
    /\ IdleCache
    /\ IdleHier
    /\ IdleSweep
    /\ IdleCompare
    /\ IdleMemory
    /\ IdleApp

GenerateLRUKiller ==
    /\ gen.kind = "none"
    /\ \E count \in KillerCounts :
          gen' = [kind |-> "lruKiller", baseAddress |-> gen.baseAddress,
                  cacheConfig |-> gen.cacheConfig, options |-> gen.options,
                  entries |-> generateLRUKillerTrace(gen.baseAddress, 4, count,
                                                     gen.cacheConfig, gen.options)]
    /\ UNCHANGED <<ran, otherThanTrace>>

GenerateTemporalLocality ==
    /\ gen.kind = "none"
    /\ gen.cacheConfig \in SmallHints
    /\ \E counts \in HotColdCounts, iterations \in Iterations :
          gen' = [kind |-> "temporal", baseAddress |-> gen.baseAddress,
                  cacheConfig |-> gen.cacheConfig, options |-> gen.options,
                  hotCount |-> counts[1], coldCount |-> counts[2],
                  iterations |-> iterations,
                  entries |-> generateTemporalLocalityTrace(gen.baseAddress, counts[1],
                                  counts[2], iterations, gen.cacheConfig, gen.options)]
    /\ UNCHANGED <<ran, otherThanTrace>>

\* for (const entry of trace) c.access(entry.address, entry.isWrite) on an
\* engine that was new when the loop began: the entry to read next is the one
\* after those it counted
RECURSIVE run(_, _)
run(c, entries) ==
    IF c.stats.totalAccesses >= Len(entries) THEN c
    ELSE run(CacheSimulator_access(c, entries[c.stats.totalAccesses + 1][2],
                                   entries[c.stats.totalAccesses + 1][1], 0).sim,
             entries)

\* a new CacheSimulator runs the generated trace
ReplayTrace ==
    /\ gen.kind = "lruKiller"
    /\ ran = NoEngine
    /\ \E config \in ReplayConfigs :
          ran' = run(CacheSimulator_new(config), gen.entries)
    /\ UNCHANGED <<gen, otherThanTrace>>

NextTrace ==
    \/ GenerateLRUKiller
    \/ GenerateTemporalLocality
    \/ ReplayTrace

SpecTrace == InitTrace /\ [][NextTrace]_vars

(* Trace vocabulary *)

\* the fields extractTag and extractIndex read, as the constructor computes
\* them, without the sets
Geometry(cacheSize, blockSize, associativity) ==
    [offsetBits |-> Log2(blockSize, 1),
     indexBits |-> Log2(cacheSize, blockSize * associativity)]

\* valid geometries of at most 1 MiB: the largest direct-mapped, the largest
\* with the smallest blocks, the defaults of L1 and L2, one set, two sets
Geometries ==
    {Geometry(1024 * 1024, 64, 1), Geometry(1024 * 1024, 16, 16),
     Geometry(32 * 1024, 64, 4), Geometry(256 * 1024, 64, 8),
     Geometry(64, 16, 4), Geometry(32, 16, 1)}

AddressesOf(entries) == {entries[i][2] : i \in DOMAIN entries}

MiB == 1024 * 1024

\* the associativity the pattern targets at each stress level
TargetAssoc == [light |-> 2, moderate |-> 4, heavy |-> 8, extreme |-> 16]

\* C36: every address of generateLRUKillerTrace is base + k * 1 MiB with k
\* cycling over 0 .. blocksPerSet - 1, where blocksPerSet exceeds
\* effectiveAssoc = max(hinted associativity, 2/4/8/16 by stress level); for
\* every valid geometry of at most 1 MiB all addresses have the set index of
\* the base and distinct addresses have distinct tags.
C36_KillerAddresses ==
    gen.kind = "lruKiller" =>
        LET config == getEffectiveConfig(gen.cacheConfig)
            cycle == blocksPerSet(config, gen.options)
            targeted == Max(config.l1Associativity, TargetAssoc[gen.options.stressLevel])
        IN  /\ effectiveAssoc(config, gen.options) = targeted
            /\ cycle > targeted
            /\ cycle <= 2 * targeted
            /\ \A i \in DOMAIN gen.entries :
                  gen.entries[i] = <<FALSE, gen.baseAddress + ((i - 1) % cycle) * MiB>>
            /\ \A g \in Geometries :
                  /\ \A a \in AddressesOf(gen.entries) :
                        extractIndex(g, a) = extractIndex(g, gen.baseAddress)
                  /\ \A a, b \in AddressesOf(gen.entries) :
                        a # b => extractTag(g, a) # extractTag(g, b)

\* 70 addresses from 4100 at the extreme level with a 16-way hint: 32 blocks
\* cycle, the 33rd address is the base again, and the last block of the cycle
\* falls in set 64 of the direct-mapped 1 MiB cache as the base does
C36_Witness ==
    /\ gen.kind = "lruKiller"
    /\ Len(gen.entries) = 70
    /\ gen.baseAddress = 4100
    /\ gen.options.stressLevel = "extreme"
    /\ gen.entries[32][2] = 4100 + 31 * MiB
    /\ gen.entries[33][2] = 4100
    /\ extractIndex(Geometry(MiB, 64, 1), gen.entries[32][2]) = 64
    /\ extractTag(Geometry(MiB, 64, 1), gen.entries[32][2]) = 31

\* C37: a cache with fewer ways than the pattern has blocks per set, the
\* caches with fewer ways than effectiveAssoc among them, misses on every
\* access of a generateLRUKillerTrace of any length under LRU and under FIFO.
C37_Thrashing ==
    (gen.kind = "lruKiller" /\ ran # NoEngine) =>
        LET config == getEffectiveConfig(gen.cacheConfig)
            ways == ran.config.associativity
        IN  /\ effectiveAssoc(config, gen.options) < blocksPerSet(config, gen.options)
            /\ (/\ ways < blocksPerSet(config, gen.options)
                /\ ran.config.replacementPolicy \in {"LRU", "FIFO"})
               => /\ ran.stats.hits = 0
                  /\ ran.stats.misses = Len(gen.entries)
                  /\ ran.stats.totalAccesses = Len(gen.entries)

\* the 4-way LRU cache ran 70 accesses of the moderate pattern, 6 blocks to
\* a set, and missed 70 times
C37_Witness ==
    /\ gen.kind = "lruKiller"
    /\ ran # NoEngine
    /\ ran.config.associativity = 4
    /\ ran.config.replacementPolicy = "LRU"
    /\ blocksPerSet(getEffectiveConfig(gen.cacheConfig), gen.options) = 6
    /\ Len(gen.entries) = 70
    /\ ran.stats.misses = 70
    /\ ran.stats.hits = 0

\* the hot and the cold addresses of the generated temporal trace
HotOf(g) ==
    LET config == getEffectiveConfig(g.cacheConfig)
    IN  hotAddresses(g.baseAddress, g.hotCount, config, getStressAwareSizes(config, g.options))

ColdOf(g) ==
    LET config == getEffectiveConfig(g.cacheConfig)
    IN  coldAddresses(g.baseAddress, g.coldCount, config, getStressAwareSizes(config, g.options))

Range(f) == {f[i] : i \in DOMAIN f}

\* C38: for every base address, hot/cold count, hint and stress level, no
\* address of generateTemporalLocalityTrace is both a hot and a cold address,
\* and each iteration reads hot addresses only, then each cold address once.
C38_HotColdDisjoint ==
    gen.kind = "temporal" =>
        LET hot == HotOf(gen)
            cold == ColdOf(gen)
            round == Len(gen.entries) \div gen.iterations
            hotLength == round - Len(cold)
        IN  /\ Range(hot) \cap Range(cold) = {}
            /\ Len(gen.entries) = round * gen.iterations
            /\ hotLength >= Len(hot)
            /\ \A n \in 0..(gen.iterations - 1) :
                  /\ \A k \in 1..hotLength : gen.entries[n * round + k][2] \in Range(hot)
                  /\ \A k \in 1..Len(cold) :
                        gen.entries[n * round + hotLength + k] = <<FALSE, cold[k]>>

-----------------------------------------------------------------------------
(* The simulator store (useSimulatorStore) *)

defaultL1Config == CacheConfig(4096, 32, 4, "LRU", "write-back")
defaultL2Config == CacheConfig(32768, 64, 8, "LRU", "write-back")
defaultMultiLevelConfig == MultiLevelCacheConfig(defaultL1Config, defaultL2Config, TRUE, FALSE)
defaultMemoryConfig == MemoryConfig(256, 80, 64, 3200, "DDR4", 8)

defaultMemoryStats ==
    [totalReads |-> 0, totalWrites |-> 0, totalAccesses |-> 0, bytesTransferred |-> 0,
     averageLatency |-> Zero, bandwidthUtilization |-> Zero,
     peakBandwidthMBps |-> Zero, effectiveBandwidthMBps |-> Zero]

\* { ...base, ...partial }
Spread(base, partial) ==
    [f \in DOMAIN base |-> IF f \in DOMAIN partial THEN partial[f] ELSE base[f]]

\* the state the store is created with; the set and region snapshots the
\* store keeps for drawing are copies of the simulator's and are left out
NewStore ==
    [multiLevelConfig |-> defaultMultiLevelConfig,
     config |-> defaultL1Config,
     memoryConfig |-> defaultMemoryConfig,
     memoryStats |-> defaultMemoryStats,
     multiLevelSimulator |-> Null,
     trace |-> << >>,
     traceIndex |-> 0,
     l1Stats |-> ZeroStats,
     l2Stats |-> ZeroStats,
     combinedStats |-> ZeroStats,
     lastAccess |-> Null,
     playbackState |-> "idle",
     playbackSpeed |-> 1,
     savedConfigs |-> << >>]

\* the part of set({...}) that initSimulator, resetSimulator and stepForward share
withSnapshots(s, simulator) ==
    [s EXCEPT !.multiLevelSimulator = simulator,
              !.l1Stats = statsOrZero(simulator.l1),
              !.l2Stats = statsOrZero(simulator.l2),
              !.combinedStats = simulator.combinedStats,
              !.memoryStats = simulator.memory.stats]

\* initSimulator leaving the old position in the trace
initSimulator_KeepsIndex(s) ==
    [withSnapshots(s, MultiLevelCacheSimulator_new(s.multiLevelConfig, s.memoryConfig))
        EXCEPT !.lastAccess = Null, !.playbackState = "idle"]

initSimulator(s) ==
    [withSnapshots(s, MultiLevelCacheSimulator_new(s.multiLevelConfig, s.memoryConfig))
        EXCEPT !.traceIndex = 0, !.lastAccess = Null, !.playbackState = "idle"]

resetSimulator(s) ==
    IF s.multiLevelSimulator = Null THEN s
    ELSE [withSnapshots(s, MultiLevelCacheSimulator_reset(s.multiLevelSimulator))
            EXCEPT !.traceIndex = 0, !.lastAccess = Null, !.playbackState = "idle"]

setTrace(s, entries) == resetSimulator([s EXCEPT !.trace = entries, !.traceIndex = 0])

setPlaybackState(s, playbackState) == [s EXCEPT !.playbackState = playbackState]
setPlaybackSpeed(s, playbackSpeed) == [s EXCEPT !.playbackSpeed = playbackSpeed]

\* the lastAccess stepForward builds from the entry and the result
lastAccessOf(entry, res) ==
    [address |-> entry[2], isWrite |-> entry[1],
     totalLatency |-> res.totalLatency, dataPath |-> res.dataPath,
     memoryResult |-> res.memoryResult,
     memoryAccessed |-> res.memoryResult # Undefined,
     l1 |-> res.l1Result, l2 |-> res.l2Result]

\* the set({...}) of stepForward once access() has returned accessed
stepped(s, accessed) ==
    [withSnapshots(s, accessed.sim)
        EXCEPT !.traceIndex = s.traceIndex + 1,
               !.lastAccess = lastAccessOf(s.trace[s.traceIndex + 1], accessed.result)]

\* no configuration of the store replaces at random
stepForward(s) ==
    IF s.multiLevelSimulator = Null \/ s.traceIndex >= Len(s.trace)
    THEN [s EXCEPT !.playbackState = "idle"]
    ELSE stepped(s, MultiLevelCacheSimulator_access(s.multiLevelSimulator,
                        s.trace[s.traceIndex + 1][2], s.trace[s.traceIndex + 1][1], 0, 0))

setL1Config(s, newConfig) ==
    initSimulator([s EXCEPT !.multiLevelConfig.l1 = Spread(@, newConfig),
                            !.config = Spread(@, newConfig)])

setL2Config(s, newConfig) ==
    initSimulator([s EXCEPT !.multiLevelConfig.l2 = Spread(@, newConfig)])

toggleCacheLevel(s, level, enabled) ==
    initSimulator([s EXCEPT !.multiLevelConfig.enabled[level] = enabled])

setMemoryConfig(s, newConfig) ==
    initSimulator([s EXCEPT !.memoryConfig = Spread(@, newConfig)])

saveConfig(s, name) ==
    [s EXCEPT !.savedConfigs =
        Append(SelectSeq(@, LAMBDA c : c.name # name),
               [name |-> name, config |-> s.multiLevelConfig,
                memoryConfig |-> s.memoryConfig])]

\* every saved configuration of the model carries its memoryConfig
loadConfig(s, name) ==
    LET found == SelectSeq(s.savedConfigs, LAMBDA c : c.name = name)
    IN  IF found = << >> THEN s
        ELSE initSimulator([s EXCEPT !.multiLevelConfig = found[1].config,
                                     !.config = found[1].config.l1,
                                     !.memoryConfig = found[1].memoryConfig])

-----------------------------------------------------------------------------
(* The store called by its users *)

\* traces: none, one read, a block read, written and displaced
StoreTraces ==
    {<< >>,
     <<<<FALSE, 0>>>>,
     <<<<FALSE, 0>>, <<TRUE, 0>>, <<FALSE, 4096>>>>}

L1Changes == {[associativity |-> 2]}
L2Changes == {[replacementPolicy |-> "FIFO"]}
MemoryChanges == {[latencyCycles |-> 100]}
Levels == {"l1", "l2"}
ConfigNames == {"a", "b"}

InitStore ==
    /\ store = NewStore
    /\ ui = [mounted |-> "none"]
    /\ IdleCache
    /\ IdleHier
    /\ IdleSweep
    /\ IdleCompare
    /\ IdleMemory
    /\ IdleTrace

InitSimulator ==
    /\ store' = initSimulator(store)
    /\ UNCHANGED <<ui, otherThanApp>>

ResetSimulator ==
    /\ store' = resetSimulator(store)
    /\ UNCHANGED <<ui, otherThanApp>>

SetTrace ==
    /\ \E entries \in StoreTraces : store' = setTrace(store, entries)
    /\ UNCHANGED <<ui, otherThanApp>>

StepForward ==
    /\ store' = stepForward(store)
    /\ UNCHANGED <<ui, otherThanApp>>

SetL1Config ==
    /\ \E newConfig \in L1Changes : store' = setL1Config(store, newConfig)
    /\ UNCHANGED <<ui, otherThanApp>>

SetL2Config ==
    /\ \E newConfig \in L2Changes : store' = setL2Config(store, newConfig)
    /\ UNCHANGED <<ui, otherThanApp>>

ToggleCacheLevel ==
    /\ \E level \in Levels, enabled \in BOOLEAN :
          store' = toggleCacheLevel(store, level, enabled)
    /\ UNCHANGED <<ui, otherThanApp>>

SetMemoryConfig ==
    /\ \E newConfig \in MemoryChanges : store' = setMemoryConfig(store, newConfig)
    /\ UNCHANGED <<ui, otherThanApp>>

\* at most one configuration is kept under a name, and one name is used
SaveConfig ==
    /\ store' = saveConfig(store, "a")
    /\ UNCHANGED <<ui, otherThanApp>>

LoadConfig ==
    /\ \E name \in ConfigNames : store' = loadConfig(store, name)
    /\ UNCHANGED <<ui, otherThanApp>>

\* the playback controls are on the page, whose mount calls initSimulator
SetPlaybackState ==
    /\ store.multiLevelSimulator # Null
    /\ \E playbackState \in {"playing", "paused"} :
          store' = setPlaybackState(store, playbackState)
    /\ UNCHANGED <<ui, otherThanApp>>

NextStore ==
    \/ InitSimulator
    \/ ResetSimulator
    \/ SetTrace
    \/ StepForward
    \/ SetL1Config
    \/ SetL2Config
    \/ ToggleCacheLevel
    \/ SetMemoryConfig
    \/ SaveConfig
    \/ LoadConfig
    \/ SetPlaybackState

SpecStore == InitStore /\ [][NextStore]_vars

-----------------------------------------------------------------------------
(* The position in the trace *)

\* the calls that change a configuration, each with the store it leaves
ConfigChanges ==
    {setL1Config(store, c) : c \in L1Changes}
        \cup {setL2Config(store, c) : c \in L2Changes}
        \cup {setMemoryConfig(store, c) : c \in MemoryChanges}
        \cup {toggleCacheLevel(store, level, enabled) : level \in Levels, enabled \in BOOLEAN}
        \cup {loadConfig(store, c.name) : c \in Range(store.savedConfigs)}

\* the stores setTrace and resetSimulator leave
Rewinds == {setTrace(store, entries) : entries \in StoreTraces} \cup {resetSimulator(store)}

\* at the start of the trace with nothing counted and nothing playing
AtStart(s) ==
    /\ s.traceIndex = 0
    /\ s.l1Stats = ZeroStats
    /\ s.l2Stats = ZeroStats
    /\ s.combinedStats = ZeroStats
    /\ s.memoryStats.totalAccesses = 0
    /\ s.playbackState = "idle"

\* C39: the position stays within the trace; with a simulator it equals the
\* combined totalAccesses of the simulator and of the stored snapshot;
\* stepForward at or past the end of the trace leaves the simulator alone and
\* only sets playbackState to idle; every configuration change, setTrace and
\* resetSimulator leaves the position at 0 with zeroed stats and playbackState idle
C39_TraceIndex ==
    /\ store.traceIndex >= 0
    /\ store.traceIndex <= Len(store.trace)
    /\ store.multiLevelSimulator # Null =>
          /\ store.traceIndex = store.multiLevelSimulator.combinedStats.totalAccesses
          /\ store.traceIndex = store.combinedStats.totalAccesses
    /\ store.traceIndex >= Len(store.trace) =>
          stepForward(store) = [store EXCEPT !.playbackState = "idle"]
    /\ \A s \in ConfigChanges \cup Rewinds : AtStart(s)

\* a trace of three entries played to its end, still marked as playing
C39_Witness ==
    /\ store.multiLevelSimulator # Null
    /\ Len(store.trace) = 3
    /\ store.traceIndex = 3
    /\ store.combinedStats.totalAccesses = 3
    /\ store.playbackState = "playing"
    /\ store.savedConfigs # << >>

-----------------------------------------------------------------------------
(* PlaybackControls *)

MaxTrace == 4
MaxTimeouts == 2

\* the speeds of the three branches of the playback effect
PlaybackSpeeds == {1, 45, 500}

\* Math.ceil(Math.pow(playbackSpeed / 50, 1.5)): the least k with k * k >= (speed / 50) ^ 3
RECURSIVE CeilPow(_, _)
CeilPow(playbackSpeed, k) ==
    IF k * k * 125000 >= playbackSpeed * playbackSpeed * playbackSpeed THEN k
    ELSE CeilPow(playbackSpeed, k + 1)

stepsPerTick(playbackSpeed) ==
    IF playbackSpeed <= 30 THEN 1
    ELSE IF playbackSpeed <= 100 THEN CeilDiv(playbackSpeed, 15)
    ELSE CeilPow(playbackSpeed, 1)

\* for (let i = 0; i < stepsPerTick; i++) stepForward()
RECURSIVE tick(_, _)
tick(s, n) ==
    IF n = 0 \/ s.traceIndex < 0 THEN s
    ELSE tick(stepForward(s), n - 1)

\* the number of entries saveToHistory adds to the history of runs
saveToHistory(s) ==
    IF Len(s.trace) = 0 \/ s.combinedStats.totalAccesses = 0 THEN 0 ELSE 1

isComplete(traceIndex, s) == traceIndex >= Len(s.trace)
hasTrace(s) == Len(s.trace) > 0

\* the dependencies of the playback effect that change
depsOf(s) == <<s.playbackState, s.playbackSpeed, isComplete(s.traceIndex, s)>>

\* the component shows the state the store is in
UpToDate ==
    /\ ui.traceIndex = store.traceIndex
    /\ ui.playbackState = store.playbackState
    /\ ui.playbackSpeed = store.playbackSpeed

\* n reads of consecutive blocks
PlaybackTrace(n) == [i \in 1..n |-> <<FALSE, (i - 1) * 64>>]

\* the page is mounted, a trace is loaded and the controls have rendered once:
\* the first run of the effect found playbackState idle and started nothing
InitPlayback ==
    /\ \E n \in 1..MaxTrace : store = setTrace(initSimulator(NewStore), PlaybackTrace(n))
    /\ ui = [traceIndex |-> 0, playbackState |-> "idle", playbackSpeed |-> 1,
             deps |-> <<"idle", 1, FALSE>>, interval |-> 0, timeouts |-> 0, saved |-> 0]
    /\ IdleCache
    /\ IdleHier
    /\ IdleSweep
    /\ IdleCompare
    /\ IdleMemory
    /\ IdleTrace

\* a render after the store changed; when a dependency changed, the cleanup of
\* the effect and then the effect run with the values of this render
Render ==
    /\ ~UpToDate
    /\ IF depsOf(store) = ui.deps
       THEN /\ ui' = [ui EXCEPT !.traceIndex = store.traceIndex,
                                !.playbackState = store.playbackState,
                                !.playbackSpeed = store.playbackSpeed]
            /\ store' = store
       ELSE IF store.playbackState = "playing" /\ ~isComplete(store.traceIndex, store)
       THEN /\ ui' = [ui EXCEPT !.traceIndex = store.traceIndex,
                                !.playbackState = store.playbackState,
                                !.playbackSpeed = store.playbackSpeed,
                                !.deps = depsOf(store),
                                !.interval = stepsPerTick(store.playbackSpeed)]
            /\ store' = store
       ELSE IF isComplete(store.traceIndex, store) /\ store.playbackState = "playing"
       THEN /\ store' = setPlaybackState(store, "idle")
            /\ ui' = [ui EXCEPT !.traceIndex = store.traceIndex,
                                !.playbackState = store.playbackState,
                                !.playbackSpeed = store.playbackSpeed,
                                !.deps = depsOf(store),
                                !.interval = 0,
                                !.saved = @ + saveToHistory(setPlaybackState(store, "idle"))]
       ELSE /\ ui' = [ui EXCEPT !.traceIndex = store.traceIndex,
                                !.playbackState = store.playbackState,
                                !.playbackSpeed = store.playbackSpeed,
                                !.deps = depsOf(store),
                                !.interval = 0]
            /\ store' = store
    /\ UNCHANGED otherThanApp

\* the interval fires, between two renders
Tick ==
    /\ UpToDate
    /\ ui.interval > 0
    /\ store' = tick(store, ui.interval)
    /\ UNCHANGED <<ui, otherThanApp>>

HandlePlayPause ==
    /\ UpToDate
    /\ hasTrace(store) /\ ~isComplete(ui.traceIndex, store)
    /\ store' = setPlaybackState(store, IF ui.playbackState = "playing" THEN "paused" ELSE "playing")
    /\ UNCHANGED <<ui, otherThanApp>>

\* the Step button stays enabled while the trace plays
HandleStepForward ==
    /\ UpToDate
    /\ hasTrace(store) /\ ~isComplete(ui.traceIndex, store)
    /\ ui.traceIndex = Len(store.trace) - 1 => ui.timeouts < MaxTimeouts
    /\ store' = stepForward(store)
    /\ ui' = [ui EXCEPT !.timeouts = IF ui.traceIndex = Len(store.trace) - 1 THEN @ + 1 ELSE @]
    /\ UNCHANGED otherThanApp

\* the timeout of handleStepForward fires
SaveTimeout ==
    /\ UpToDate
    /\ ui.timeouts > 0
    /\ ui' = [ui EXCEPT !.timeouts = @ - 1, !.saved = @ + saveToHistory(store)]
    /\ UNCHANGED <<store, otherThanApp>>

\* Reset starts a new run: saved counts the entries of the run under way
HandleReset ==
    /\ UpToDate
    /\ hasTrace(store)
    /\ store' = resetSimulator(store)
    /\ ui' = [ui EXCEPT !.saved = 0]
    /\ UNCHANGED otherThanApp

SetPlaybackSpeed ==
    /\ UpToDate
    /\ \E playbackSpeed \in PlaybackSpeeds : store' = setPlaybackSpeed(store, playbackSpeed)
    /\ UNCHANGED <<ui, otherThanApp>>

\* the Save button, which saves on request, and the Quick Finish button,
\* whose skipToEnd the store does not define, are left out
NextPlayback ==
    \/ Render
    \/ Tick
    \/ HandlePlayPause
    \/ HandleStepForward
    \/ SaveTimeout
    \/ HandleReset
    \/ SetPlaybackSpeed

SpecPlayback == InitPlayback /\ [][NextPlayback]_vars

\* nothing is left to run: no render, no interval, no timeout
Settled == UpToDate /\ ui.interval = 0 /\ ui.timeouts = 0

\* C40: a run that reached the end of its trace has been saved to the history
\* once when nothing is left to run, and no run is saved more than once
C40_SavedOnce ==
    /\ ui.saved <= 1
    /\ Settled /\ store.traceIndex = Len(store.trace) => ui.saved = 1

====
